---- MODULE Spec2Model ----
(***************************************************************************)
(* A model of pyroutelib3: the OSM graph builder (osm/graph.py) with its   *)
(* turn-restriction encoding by phantom-node cloning, and the A* searches  *)
(* of router.py.                                                           *)
(*                                                                         *)
(* Python values are represented as follows.                               *)
(*   - Optional[T]: a sequence of length at most 1 (<<>> is None).         *)
(*   - dict: a sequence of <<key, value>> pairs in insertion order, as a   *)
(*     Python dict iterates; the outer dict of Graph.edges is a function   *)
(*     whose DOMAIN is its set of keys (its own order is never observed).  *)
(*   - float costs: integers (penalty times an integer distance).          *)
(***************************************************************************)
EXTENDS Integers, Sequences, FiniteSets, TLC

(***************************************************************************)
(* Bounds of the model                                                     *)
(***************************************************************************)
\* OSM node ids of the input are 1..MaxNode
MaxNode == 4
\* at most MaxWays ways in one batch
MaxWays == 3
\* at most MaxRels relations in one batch
MaxRels == 2
\* at most MaxCalls calls of add_features on one graph
MaxCalls == 2
\* under SpecCalls: node ids 1..CallsMaxNode, and over all the calls at most
\* CallsMaxWays ways and CallsMaxRels relations
CallsMaxNode == 3
CallsMaxWays == 3
CallsMaxRels == 2
\* the graphs searched: nodes 1..RouteMaxNode, at most RouteMaxEdges edges,
\* costs 0..RouteMaxCost, positions 0..RouteMaxPos
RouteMaxNode == 4
RouteMaxEdges == 4
RouteMaxCost == 2
RouteMaxPos == 1
\* under SpecNoTurnAround: costs 0..TurnMaxCost, positions 0..TurnMaxPos
TurnMaxCost == 1
TurnMaxPos == 1
\* under SpecLimit: step limits 0..MaxStepLimit
MaxStepLimit == 3
\* under SpecRestrictions: node ids 1..RestrMaxNode, at most RestrMaxWays ways
\* and RestrMaxRels relations
RestrMaxNode == 4
RestrMaxWays == 3
RestrMaxRels == 2
\* under SpecWays: node ids 1..WaysMaxNode, at most WaysMaxWays ways of at most
\* WaysMaxLen node references, penalties up to WaysMaxPenalty, and at most
\* WaysMaxRels relations
WaysMaxNode == 3
WaysMaxWays == 2
WaysMaxLen == 3
WaysMaxPenalty == 2
WaysMaxRels == 1
\* under SpecInvalid: node ids 1..InvMaxNode, at most InvMaxWays ways, relations
\* of 2..InvMaxMembers members that refer to nodes 1..InvMaxNode, to ways
\* 1..InvMaxWays and to relation 1; at most InvMaxRels relations
InvMaxNode == 3
InvMaxWays == 2
InvMaxMembers == 3
InvMaxRels == 2

\* osm/profile.py: access lists of up to ProfMaxAccess keys
ProfMaxAccess == 3

\* kd.py: up to KdMaxPoints points and a query, coordinates 0..KdMaxCoord
KdMaxPoints == 4
KdMaxCoord == 2

\* the members of a restriction: ChainMaxWays ways of 2..ChainMaxLen nodes
\* out of 1..ChainMaxNode, and up to ChainMaxVias via members
ChainMaxNode == 3
ChainMaxWays == 3
ChainMaxLen == 3
ChainMaxVias == 2

(***************************************************************************)
(* Program constants                                                       *)
(***************************************************************************)
\* 0x0008_0000_0000_0000 in the source; scaled down to fit TLC's 32-bit
\* integers.  Only comparisons with it are made.
_MAX_NODE_ID == 1048576

(***************************************************************************)
(* Python containers                                                       *)
(***************************************************************************)
None == <<>>
Some(x) == <<x>>

\* the keys of a dict, in iteration order
DictKeys(d) == [i \in 1..Len(d) |-> d[i][1]]
DictKeySet(d) == {d[i][1] : i \in 1..Len(d)}
DictHas(d, k) == k \in DictKeySet(d)
\* d[k], for a key that is present
DictGet(d, k) == d[CHOOSE i \in 1..Len(d) : d[i][1] = k][2]
\* d[k] = v: an existing key keeps its place, a new key goes last
DictSet(d, k, v) ==
    IF DictHas(d, k)
    THEN [i \in 1..Len(d) |-> IF d[i][1] = k THEN <<k, v>> ELSE d[i]]
    ELSE Append(d, <<k, v>>)
\* d.pop(k, None)
DictPop(d, k) == SelectSeq(d, LAMBDA kv : kv[1] # k)

Reverse(s) == [i \in 1..Len(s) |-> s[Len(s) + 1 - i]]
Last(s) == s[Len(s)]
SeqSet(s) == {s[i] : i \in 1..Len(s)}

\* function f extended or overwritten at k
FunSet(f, k, v) == [x \in DOMAIN f \cup {k} |-> IF x = k THEN v ELSE f[x]]
EmptyFun == [x \in {} |-> 0]

(***************************************************************************)
(* distance.py                                                             *)
(***************************************************************************)
Abs(x) == IF x < 0 THEN -x ELSE x
\* Positions are points of a line, and the crow-flies distance between
\* two positions is their difference.
haversine_earth_distance(a, b) == Abs(b - a)

(***************************************************************************)
(* Graph: nodes, edges, _phantom_node_id_counter                           *)
(*   g.nodes : id -> [id, position, external_id]                           *)
(*   g.edges : id -> dict of id -> cost                                    *)
(***************************************************************************)
GraphNode(id, position, external_id) ==
    [id |-> id, position |-> position, external_id |-> external_id]

NewGraph == [nodes |-> EmptyFun, edges |-> EmptyFun, ctr |-> _MAX_NODE_ID]

\* SimpleGraph.get_edges: self.edges.get(id, {}).items()
get_edges(edges, id) == IF id \in DOMAIN edges THEN edges[id] ELSE <<>>

\* self.g.edges.setdefault(a, {})[b] = weight
SetEdge(edges, a, b, weight) == FunSet(edges, a, DictSet(get_edges(edges, a), b, weight))

(***************************************************************************)
(* _GraphBuilder: ingestion of nodes and ways                              *)
(*   b.unused_nodes : set of ids, b.way_nodes : way id -> list of ids      *)
(* A feature is given with the answers the profile has for its tags:       *)
(*   node     [id, position]                                               *)
(*   way      [id, nodes, penalty (Optional), forward, backward]           *)
(*   relation [id, restriction, members], a member being [type, ref, role] *)
(***************************************************************************)
NewBuilder == [unused_nodes |-> {}, way_nodes |-> EmptyFun]

\* the outcome of a builder step: the graph, the builder, and whether the
\* step raised ValueError
Outcome(g, b, raised) == [g |-> g, b |-> b, raised |-> raised]

\* add_node without its test that the node is new
add_node_overwriting(g, b, node) ==
    IF node.id >= _MAX_NODE_ID THEN Outcome(g, b, TRUE)
    ELSE Outcome([g EXCEPT !.nodes = FunSet(@, node.id,
                                     GraphNode(node.id, node.position, node.id))],
                 [b EXCEPT !.unused_nodes = @ \cup {node.id}],
                 FALSE)

\* add_node that marks a node as unused also when the graph has it already
add_node_marking_unused(g, b, node) ==
    IF node.id >= _MAX_NODE_ID THEN Outcome(g, b, TRUE)
    ELSE Outcome([g EXCEPT !.nodes =
                     IF node.id \in DOMAIN g.nodes THEN @
                     ELSE FunSet(@, node.id, GraphNode(node.id, node.position, node.id))],
                 [b EXCEPT !.unused_nodes = @ \cup {node.id}],
                 FALSE)

\* add_node without its test of the id against _MAX_NODE_ID
add_node_any_id(g, b, node) ==
    IF node.id \notin DOMAIN g.nodes
    THEN Outcome([g EXCEPT !.nodes = FunSet(@, node.id,
                                     GraphNode(node.id, node.position, node.id))],
                 [b EXCEPT !.unused_nodes = @ \cup {node.id}],
                 FALSE)
    ELSE Outcome(g, b, FALSE)

add_node(g, b, node) ==
    IF node.id >= _MAX_NODE_ID THEN Outcome(g, b, TRUE)
    ELSE IF node.id \notin DOMAIN g.nodes
    THEN Outcome([g EXCEPT !.nodes = FunSet(@, node.id,
                                     GraphNode(node.id, node.position, node.id))],
                 [b EXCEPT !.unused_nodes = @ \cup {node.id}],
                 FALSE)
    ELSE Outcome(g, b, FALSE)

\* _get_way_penalty raises for a penalty that is not None and is below 1
\* (an integer is always finite)
InvalidPenalty(penalty) == penalty # None /\ penalty[1] < 1

\* the references to unknown nodes removed
_get_way_nodes(g, way) == SelectSeq(way.nodes, LAMBDA n : n \in DOMAIN g.nodes)

RECURSIVE _create_edges_from(_, _, _, _, _, _, _)
_create_edges_from(edges, gnodes, nodes, i, penalty, forward, backward) ==
    IF i >= Len(nodes) THEN edges
    ELSE LET left_id == nodes[i]
             right_id == nodes[i + 1]
             weight == penalty * haversine_earth_distance(gnodes[left_id].position,
                                                          gnodes[right_id].position)
             e1 == IF forward THEN SetEdge(edges, left_id, right_id, weight) ELSE edges
             e2 == IF backward THEN SetEdge(e1, right_id, left_id, weight) ELSE e1
         IN _create_edges_from(e2, gnodes, nodes, i + 1, penalty, forward, backward)

_create_edges(g, nodes, penalty, forward, backward) ==
    [g EXCEPT !.edges = _create_edges_from(@, g.nodes, nodes, 1, penalty, forward, backward)]

\* _update_state_after_adding_way without the discard of the used nodes
_update_state_keeping_unused(b, way_id, nodes) ==
    [unused_nodes |-> b.unused_nodes,
     way_nodes |-> FunSet(b.way_nodes, way_id, nodes)]

_update_state_after_adding_way(b, way_id, nodes) ==
    [unused_nodes |-> b.unused_nodes \ SeqSet(nodes),
     way_nodes |-> FunSet(b.way_nodes, way_id, nodes)]

\* add_way that takes every way for a two-way one
add_way_both_directions(g, b, way) ==
    IF InvalidPenalty(way.penalty) THEN Outcome(g, b, TRUE)
    ELSE IF way.penalty = None THEN Outcome(g, b, FALSE)
    ELSE IF Len(_get_way_nodes(g, way)) < 2 THEN Outcome(g, b, FALSE)
    ELSE Outcome(_create_edges(g, _get_way_nodes(g, way), way.penalty[1], TRUE, TRUE),
                 _update_state_after_adding_way(b, way.id, _get_way_nodes(g, way)),
                 FALSE)

add_way(g, b, way) ==
    IF InvalidPenalty(way.penalty) THEN Outcome(g, b, TRUE)
    ELSE IF way.penalty = None THEN Outcome(g, b, FALSE)
    ELSE LET nodes == _get_way_nodes(g, way)
         IN IF Len(nodes) < 2 THEN Outcome(g, b, FALSE)
            ELSE Outcome(_create_edges(g, nodes, way.penalty[1], way.forward, way.backward),
                         _update_state_after_adding_way(b, way.id, nodes),
                         FALSE)

\* cleanup: the unused nodes are deleted from g.nodes
cleanup(g, b) ==
    [g EXCEPT !.nodes = [id \in DOMAIN g.nodes \ b.unused_nodes |-> g.nodes[id]]]

(***************************************************************************)
(* _GraphChange: a change staged for one restriction                       *)
(*   new_nodes       : dict clone id -> original id                        *)
(*   edges_to_add    : dict from -> dict to -> cost                        *)
(*   edges_to_remove : set of <<from, to>>                                 *)
(*   ctr             : phantom_node_id_counter                             *)
(***************************************************************************)
NewChange(g) ==
    [new_nodes |-> <<>>, edges_to_add |-> <<>>, edges_to_remove |-> {}, ctr |-> g.ctr]

\* self.new_nodes.get(id, id)
OriginalOf(ch, id) == IF DictHas(ch.new_nodes, id) THEN DictGet(ch.new_nodes, id) ELSE id

\* the first out-neighbour, in dict order, whose osm_id is to_osm_id
_get_to_node_id(g, ch, from_node_id, to_osm_id) ==
    LET cands == DictKeys(get_edges(g.edges, OriginalOf(ch, from_node_id)))
        hits == SelectSeq(cands, LAMBDA c : g.nodes[c].external_id = to_osm_id)
    IN IF hits = <<>> THEN None ELSE Some(hits[1])

_make_node_clone(ch, original_node_id) ==
    [ch EXCEPT !.ctr = @ + 1,
               !.new_nodes = DictSet(@, ch.ctr + 1, original_node_id)]

\* an overridden cost counts only when it is truthy (not 0)
_get_edge_cost(g, ch, from_node_id, to_node_id) ==
    LET added == IF DictHas(ch.edges_to_add, from_node_id)
                 THEN DictGet(ch.edges_to_add, from_node_id) ELSE <<>>
    IN IF DictHas(added, to_node_id) /\ DictGet(added, to_node_id) # 0
       THEN DictGet(added, to_node_id)
       ELSE DictGet(g.edges[OriginalOf(ch, from_node_id)], to_node_id)

\* self.edges_to_add.setdefault(a, {})[b] = cost
StageEdge(ch, a, b, cost) ==
    LET inner == IF DictHas(ch.edges_to_add, a) THEN DictGet(ch.edges_to_add, a) ELSE <<>>
    IN [ch EXCEPT !.edges_to_add = DictSet(@, a, DictSet(inner, b, cost))]

\* the loop of restriction_as_cloned_nodes from element i of osm_nodes on;
\* <<>> when an edge of the route is missing
RECURSIVE ClonedNodesFrom(_, _, _, _, _)
ClonedNodesFrom(g, ch, osm_nodes, i, cloned_nodes) ==
    IF i > Len(osm_nodes) THEN Some([cloned_nodes |-> cloned_nodes, ch |-> ch])
    ELSE LET osm_node_id == osm_nodes[i]
             previous_node_id == Last(cloned_nodes)
             found == _get_to_node_id(g, ch, previous_node_id, osm_node_id)
         IN IF found = None THEN None
            ELSE LET original_node_id == found[1]
                     is_clone == osm_node_id # original_node_id
                     is_last == osm_node_id = Last(osm_nodes)
                 IN IF ~is_clone /\ ~is_last
                    THEN LET cost == _get_edge_cost(g, ch, previous_node_id, original_node_id)
                             ch1 == _make_node_clone(ch, original_node_id)
                             cloned_node_id == ch1.ctr
                             ch2 == [ch1 EXCEPT !.edges_to_remove =
                                        @ \cup {<<previous_node_id, original_node_id>>}]
                             ch3 == StageEdge(ch2, previous_node_id, cloned_node_id, cost)
                         IN ClonedNodesFrom(g, ch3, osm_nodes, i + 1,
                                            Append(cloned_nodes, cloned_node_id))
                    ELSE ClonedNodesFrom(g, ch, osm_nodes, i + 1,
                                         Append(cloned_nodes, original_node_id))

restriction_as_cloned_nodes(g, ch, osm_nodes) ==
    ClonedNodesFrom(g, ch, osm_nodes, 2, <<osm_nodes[1]>>)

\* ensure_only_edge that removes no edge
ensure_no_edge_removed(g, ch, from_node_id, to_node_id) == ch

ensure_only_edge(g, ch, from_node_id, to_node_id) ==
    LET kept == IF DictHas(ch.edges_to_add, from_node_id)
                THEN DictSet(ch.edges_to_add, from_node_id,
                             SelectSeq(DictGet(ch.edges_to_add, from_node_id),
                                       LAMBDA kv : kv[1] = to_node_id))
                ELSE ch.edges_to_add
        others == {to \in DictKeySet(g.edges[OriginalOf(ch, from_node_id)]) : to # to_node_id}
    IN [ch EXCEPT !.edges_to_add = kept,
                  !.edges_to_remove = @ \cup {<<from_node_id, to>> : to \in others}]

\* the loop over pairwise(cloned_nodes[1:]) left out
KeepAllEdges(g, ch, cloned_nodes, i) == ch

\* ensure_only_edge over pairwise(cloned_nodes[1:]), from pair i on
RECURSIVE EnsureOnlyEdges(_, _, _, _)
EnsureOnlyEdges(g, ch, cloned_nodes, i) ==
    IF i >= Len(cloned_nodes) THEN ch
    ELSE EnsureOnlyEdges(g, ensure_only_edge(g, ch, cloned_nodes[i], cloned_nodes[i + 1]),
                         cloned_nodes, i + 1)

RECURSIVE _clone_nodes_from(_, _, _)
_clone_nodes_from(g, new_nodes, i) ==
    IF i > Len(new_nodes) THEN g
    ELSE LET new_id == new_nodes[i][1]
             old_id == new_nodes[i][2]
             old_node == g.nodes[old_id]
         IN _clone_nodes_from(
                [g EXCEPT !.nodes = FunSet(@, new_id,
                                       GraphNode(new_id, old_node.position, old_node.external_id)),
                          !.edges = FunSet(@, new_id, g.edges[old_id])],
                new_nodes, i + 1)

_clone_nodes(g, ch) == _clone_nodes_from(g, ch.new_nodes, 1)

\* _remove_edges that pops nothing
_remove_no_edges(g, ch) == g

\* the order in which a set of edges is popped does not matter
_remove_edges(g, ch) ==
    [g EXCEPT !.edges = [from \in DOMAIN g.edges |->
        SelectSeq(g.edges[from], LAMBDA kv : <<from, kv[1]>> \notin ch.edges_to_remove)]]

RECURSIVE AddInner(_, _, _, _)
AddInner(edges, from_id, inner, j) ==
    IF j > Len(inner) THEN edges
    ELSE AddInner(SetEdge(edges, from_id, inner[j][1], inner[j][2]), from_id, inner, j + 1)

RECURSIVE _add_edges_from(_, _, _)
_add_edges_from(edges, to_add, i) ==
    IF i > Len(to_add) THEN edges
    ELSE _add_edges_from(AddInner(edges, to_add[i][1], to_add[i][2], 1), to_add, i + 1)

_add_edges(g, ch) == [g EXCEPT !.edges = _add_edges_from(@, ch.edges_to_add, 1)]

apply(g, ch) ==
    _add_edges(_remove_edges(_clone_nodes([g EXCEPT !.ctr = ch.ctr], ch), ch), ch)

\* _store_restriction that keeps the phantom id a failed walk has drawn
_store_restriction_keeping_counter(g, osm_nodes, is_mandatory) ==
    LET walk == restriction_as_cloned_nodes(g, NewChange(g), osm_nodes)
    IN IF walk = None THEN [g EXCEPT !.ctr = @ + 1]
       ELSE LET cloned_nodes == walk[1].cloned_nodes
                n == Len(cloned_nodes)
                change == IF is_mandatory
                          THEN EnsureOnlyEdges(g, walk[1].ch, cloned_nodes, 2)
                          ELSE [walk[1].ch EXCEPT !.edges_to_remove =
                                   @ \cup {<<cloned_nodes[n - 1], cloned_nodes[n]>>}]
            IN apply(g, change)

\* the graph after _store_restriction
_store_restriction(g, osm_nodes, is_mandatory) ==
    LET walk == restriction_as_cloned_nodes(g, NewChange(g), osm_nodes)
    IN IF walk = None THEN g
       ELSE LET cloned_nodes == walk[1].cloned_nodes
                n == Len(cloned_nodes)
                change == IF is_mandatory
                          THEN EnsureOnlyEdges(g, walk[1].ch, cloned_nodes, 2)
                          ELSE [walk[1].ch EXCEPT !.edges_to_remove =
                                   @ \cup {<<cloned_nodes[n - 1], cloned_nodes[n]>>}]
            IN apply(g, change)

(***************************************************************************)
(* _GraphBuilder: turn restrictions                                        *)
(* The parsing steps return Some(result) or None, None standing for a      *)
(* raised _InvalidTurnRestriction.                                         *)
(***************************************************************************)
WithRole(members, role) == SelectSeq(members, LAMBDA m : m.role = role)

\* from, via..., to; None for a missing or repeated from or to member, or
\* no via member
_get_ordered_restriction_members(r) ==
    LET froms == WithRole(r.members, "from")
        vias == WithRole(r.members, "via")
        tos == WithRole(r.members, "to")
    IN IF Len(froms) # 1 \/ Len(tos) # 1 \/ Len(vias) = 0 THEN None
       ELSE Some(<<froms[1]>> \o vias \o <<tos[1]>>)

\* whether _restriction_member_to_nodes returns a list for the member
MemberResolves(g, b, member) ==
    IF member.type = "node" /\ member.role = "via" THEN member.ref \in DOMAIN g.nodes
    ELSE IF member.type = "way" THEN member.ref \in DOMAIN b.way_nodes
    ELSE FALSE

\* The list of a member.  A way member is the list object held by
\* way_nodes, so it is read from the current way_nodes; a node member is a
\* fresh list of one element.
MemberNodes(way_nodes, member) ==
    IF member.type = "way" THEN way_nodes[member.ref] ELSE <<member.ref>>

\* member_nodes.reverse(): the list of a way member is reversed in place
ReverseMember(way_nodes, member) ==
    IF member.type = "way" THEN [way_nodes EXCEPT ![member.ref] = Reverse(@)] ELSE way_nodes

\* The loop of _flatten_restriction_nodes from member idx on: nodes is the
\* list built so far.  The result carries way_nodes, which the reversals
\* have changed whether or not the relation turns out to be disjoined.
RECURSIVE FlattenFrom(_, _, _, _)
FlattenFrom(way_nodes, members, idx, nodes) ==
    IF idx > Len(members) THEN [ok |-> TRUE, nodes |-> nodes, way_nodes |-> way_nodes]
    ELSE LET member_nodes == MemberNodes(way_nodes, members[idx])
             is_first == idx = 1
             is_last == idx = Len(members)
             second == MemberNodes(way_nodes, members[2])
             in_order ==
                 IF is_first THEN Last(member_nodes) \in {second[1], Last(second)}
                 ELSE Last(nodes) = member_nodes[1]
             reversed ==
                 IF is_first THEN member_nodes[1] \in {second[1], Last(second)}
                 ELSE Last(nodes) = Last(member_nodes)
         IN IF ~in_order /\ ~reversed
            THEN [ok |-> FALSE, nodes |-> nodes, way_nodes |-> way_nodes]
            ELSE LET wn == IF in_order THEN way_nodes
                           ELSE ReverseMember(way_nodes, members[idx])
                     mn == MemberNodes(wn, members[idx])
                     n == Len(mn)
                     out == IF is_first THEN nodes \o SubSeq(mn, IF n >= 2 THEN n - 1 ELSE 1, n)
                            ELSE IF is_last THEN Append(nodes, mn[2])
                            ELSE nodes \o SubSeq(mn, 2, n)
                 IN FlattenFrom(wn, members, idx + 1, out)

_flatten_restriction_nodes(way_nodes, members) == FlattenFrom(way_nodes, members, 1, <<>>)

\* add_relation that does not catch _InvalidTurnRestriction, a ValueError
add_relation_not_catching(g, b, r) ==
    IF r.restriction = "INAPPLICABLE" THEN Outcome(g, b, FALSE)
    ELSE IF _get_ordered_restriction_members(r) = None THEN Outcome(g, b, TRUE)
    ELSE IF \E i \in 1..Len(_get_ordered_restriction_members(r)[1]) :
                ~MemberResolves(g, b, _get_ordered_restriction_members(r)[1][i])
    THEN Outcome(g, b, TRUE)
    ELSE LET flat == _flatten_restriction_nodes(b.way_nodes,
                                                _get_ordered_restriction_members(r)[1])
             b1 == [b EXCEPT !.way_nodes = flat.way_nodes]
         IN IF ~flat.ok THEN Outcome(g, b1, TRUE)
            ELSE Outcome(_store_restriction(g, flat.nodes, r.restriction = "MANDATORY"),
                         b1, FALSE)

\* add_relation: the graph and the builder after the relation
add_relation(g, b, r) ==
    IF r.restriction = "INAPPLICABLE" THEN Outcome(g, b, FALSE)
    ELSE LET ordered == _get_ordered_restriction_members(r)
         IN IF ordered = None THEN Outcome(g, b, FALSE)
            ELSE IF \E i \in 1..Len(ordered[1]) : ~MemberResolves(g, b, ordered[1][i])
            THEN Outcome(g, b, FALSE)
            ELSE LET flat == _flatten_restriction_nodes(b.way_nodes, ordered[1])
                     b1 == [b EXCEPT !.way_nodes = flat.way_nodes]
                 IN IF ~flat.ok THEN Outcome(g, b1, FALSE)
                    ELSE Outcome(_store_restriction(g, flat.nodes, r.restriction = "MANDATORY"),
                                 b1, FALSE)

\* add_feature: dispatch on the type of the feature
add_feature(g, b, feature) ==
    IF feature.kind = "node" THEN add_node(g, b, feature)
    ELSE IF feature.kind = "way" THEN add_way(g, b, feature)
    ELSE add_relation(g, b, feature)

\* _GraphBuilder.add_features over features[i..]; stops at a raise
RECURSIVE add_features_from(_, _, _)
add_features_from(o, features, i) ==
    IF o.raised \/ i > Len(features) THEN o
    ELSE add_features_from(add_feature(o.g, o.b, features[i]), features, i + 1)

\* cleanup after the features, unless one of them raised
CleanupUnlessRaised(o) == IF o.raised THEN o ELSE Outcome(cleanup(o.g, o.b), o.b, FALSE)

\* _GraphBuilder.add_features_to: a new builder, the features, cleanup;
\* a raise leaves the graph as it was when it happened (no cleanup)
add_features_to(g, features) ==
    CleanupUnlessRaised(add_features_from(Outcome(g, NewBuilder, FALSE), features, 1))

\* The route of a relation (None when it is inapplicable or invalid) and
\* whether the walk along it succeeds in g, as add_relation computes them.
RestrictionRoute(g, b, r) ==
    IF r.restriction = "INAPPLICABLE" THEN None
    ELSE LET ordered == _get_ordered_restriction_members(r)
         IN IF ordered = None THEN None
            ELSE IF \E i \in 1..Len(ordered[1]) : ~MemberResolves(g, b, ordered[1][i])
            THEN None
            ELSE LET flat == _flatten_restriction_nodes(b.way_nodes, ordered[1])
                 IN IF flat.ok THEN Some(flat.nodes) ELSE None

RouteWalks(g, route) == restriction_as_cloned_nodes(g, NewChange(g), route) # None

(***************************************************************************)
(* router.py: the priority queue                                           *)
(* queue is a heapq heap of _AStarQueueItem, a list in heap order; the     *)
(* items are ordered by score alone.  Positions in the heap count from 0,  *)
(* as in heapq, and heap[pos + 1] is the item at position pos.             *)
(***************************************************************************)
_AStarQueueItem(node_id, cost, score, external_id_before) ==
    [node_id |-> node_id, cost |-> cost, score |-> score,
     external_id_before |-> external_id_before]

\* a < b for two items: field(compare=True) is set on score only
ItemLess(a, b) == a.score < b.score

RECURSIVE SiftdownFrom(_, _, _, _)
SiftdownFrom(heap, startpos, pos, newitem) ==
    IF pos > startpos /\ ItemLess(newitem, heap[((pos - 1) \div 2) + 1])
    THEN SiftdownFrom([heap EXCEPT ![pos + 1] = heap[((pos - 1) \div 2) + 1]],
                      startpos, (pos - 1) \div 2, newitem)
    ELSE [heap EXCEPT ![pos + 1] = newitem]

\* heapq._siftdown: the item at pos moves towards the root past its greater parents
_siftdown(heap, startpos, pos) == SiftdownFrom(heap, startpos, pos, heap[pos + 1])

\* the child of pos that _siftup moves up: the right one unless the left one is smaller
SmallerChild(heap, pos) ==
    IF 2 * pos + 2 < Len(heap) /\ ~ItemLess(heap[2 * pos + 2], heap[2 * pos + 3])
    THEN 2 * pos + 2
    ELSE 2 * pos + 1

RECURSIVE SiftupFrom(_, _, _, _)
SiftupFrom(heap, startpos, pos, newitem) ==
    IF 2 * pos + 1 < Len(heap)
    THEN SiftupFrom([heap EXCEPT ![pos + 1] = heap[SmallerChild(heap, pos) + 1]],
                    startpos, SmallerChild(heap, pos), newitem)
    ELSE _siftdown([heap EXCEPT ![pos + 1] = newitem], startpos, pos)

\* heapq._siftup: the smaller children bubble up to a leaf, where the item is
\* put and sifted down
_siftup(heap, pos) == SiftupFrom(heap, pos, pos, heap[pos + 1])

heappush(heap, item) == _siftdown(Append(heap, item), 0, Len(heap))

\* heappop: the item returned, and the heap it leaves
heappop_item(heap) == heap[1]
heappop_heap(heap) ==
    IF Len(heap) = 1 THEN <<>>
    ELSE _siftup([SubSeq(heap, 1, Len(heap) - 1) EXCEPT ![1] = Last(heap)], 0)

(***************************************************************************)
(* router.py: find_route and find_route_without_turn_around                *)
(* A call c is [g, start, end, step_limit], g a graph [nodes, edges] and   *)
(* step_limit an Optional; distance is haversine_earth_distance.           *)
(* The locals of a search are s = [queue, came_from, known_costs, steps],  *)
(* with pc ("loop", "returned", "raised") and the result returned.         *)
(***************************************************************************)
get_node(g, id) == g.nodes[id]

\* a cost counts as below the known one only when none is known
CostBelowUnknown(cost, known_costs, key) == key \notin DOMAIN known_costs
\* a cost counts as above the known one when it equals it, too
CostNotBelowKnown(cost, known_costs, key) ==
    key \in DOMAIN known_costs /\ cost >= known_costs[key]
\* the limit counts as exceeded when it is reached
ReachesLimit(steps, step_limit) == step_limit # None /\ steps >= step_limit[1]

\* known_costs.get(key, inf), compared with a cost
CostBelowKnown(cost, known_costs, key) ==
    key \notin DOMAIN known_costs \/ cost < known_costs[key]
CostAboveKnown(cost, known_costs, key) ==
    key \in DOMAIN known_costs /\ cost > known_costs[key]

\* step_limit is not None and steps > step_limit
ExceedsLimit(steps, step_limit) == step_limit # None /\ steps > step_limit[1]

\* the while loop of _reconstruct_path: came_from.get(nd) until it is None
RECURSIVE _reconstruct_path_from(_, _, _)
_reconstruct_path_from(came_from, nd, path) ==
    IF nd \in DOMAIN came_from
    THEN _reconstruct_path_from(came_from, came_from[nd], Append(path, came_from[nd]))
    ELSE Reverse(path)

_reconstruct_path(came_from, last) == _reconstruct_path_from(came_from, last, <<last>>)

\* the locals of find_route when it enters its loop
find_route_start(c) ==
    [queue |-> <<_AStarQueueItem(c.start, 0,
                     haversine_earth_distance(get_node(c.g, c.end).position,
                                              get_node(c.g, c.start).position),
                     None)>>,
     came_from |-> EmptyFun,
     known_costs |-> FunSet(EmptyFun, c.start, 0),
     steps |-> 0, pc |-> "loop", result |-> <<>>]

\* one edge of the expanded item: the neighbour is queued when this way to it
\* is cheaper than the known one
find_route_edge(c, item, s, edge) ==
    IF CostBelowKnown(item.cost + edge[2], s.known_costs, edge[1])
    THEN [s EXCEPT
            !.came_from = FunSet(@, edge[1], item.node_id),
            !.known_costs = FunSet(@, edge[1], item.cost + edge[2]),
            !.queue = heappush(@, _AStarQueueItem(edge[1], item.cost + edge[2],
                          item.cost + edge[2]
                          + haversine_earth_distance(get_node(c.g, c.end).position,
                                                     get_node(c.g, edge[1]).position),
                          None))]
    ELSE s

\* the for loop over g.get_edges(item.node_id), from edge i on
RECURSIVE find_route_edges(_, _, _, _)
find_route_edges(c, item, s, i) ==
    IF i > Len(get_edges(c.g.edges, item.node_id)) THEN s
    ELSE find_route_edges(c, item,
                          find_route_edge(c, item, s, get_edges(c.g.edges, item.node_id)[i]),
                          i + 1)

\* the body of the loop with the step counted before the test for the end
find_route_item_counting_first(c, item, s) ==
    IF ExceedsLimit(s.steps + 1, c.step_limit)
    THEN [s EXCEPT !.steps = @ + 1, !.pc = "raised"]
    ELSE IF item.node_id = c.end
    THEN [s EXCEPT !.steps = @ + 1, !.pc = "returned",
                   !.result = _reconstruct_path(s.came_from, c.end)]
    ELSE IF CostAboveKnown(item.cost, s.known_costs, item.node_id) THEN s
    ELSE find_route_edges(c, item, [s EXCEPT !.steps = @ + 1], 1)

\* the body of the while loop for the popped item, s already without it
find_route_item(c, item, s) ==
    IF item.node_id = c.end
    THEN [s EXCEPT !.pc = "returned", !.result = _reconstruct_path(s.came_from, c.end)]
    ELSE IF CostAboveKnown(item.cost, s.known_costs, item.node_id) THEN s
    ELSE IF ExceedsLimit(s.steps + 1, c.step_limit)
    THEN [s EXCEPT !.steps = @ + 1, !.pc = "raised"]
    ELSE find_route_edges(c, item, [s EXCEPT !.steps = @ + 1], 1)

\* one turn of "while queue", or the return of [] when the queue is empty
find_route_iteration(c, s) ==
    IF s.queue = <<>> THEN [s EXCEPT !.pc = "returned", !.result = <<>>]
    ELSE find_route_item(c, heappop_item(s.queue), [s EXCEPT !.queue = heappop_heap(@)])

\* a key that forgets the node before
_NodeAlone(node_id, external_id_before) ==
    [node_id |-> node_id, external_id_before |-> None]
\* a turn-around recognised by the id of the neighbour, not its external_id
IsTurnAroundById(neighbor, item_key) == item_key.external_id_before = Some(neighbor.id)

\* _NodeAndBefore, the key of came_from and known_costs in
\* find_route_without_turn_around
_NodeAndBefore(node_id, external_id_before) ==
    [node_id |-> node_id, external_id_before |-> external_id_before]

\* neighbor.external_id == item_key.external_id_before
IsTurnAround(neighbor, item_key) == item_key.external_id_before = Some(neighbor.external_id)

\* the while loop of _reconstruct_path_without_turn_around
RECURSIVE _reconstruct_path_without_turn_around_from(_, _, _)
_reconstruct_path_without_turn_around_from(came_from, nd, path) ==
    IF nd \in DOMAIN came_from
    THEN _reconstruct_path_without_turn_around_from(came_from, came_from[nd],
                                                    Append(path, came_from[nd].node_id))
    ELSE Reverse(path)

_reconstruct_path_without_turn_around(came_from, last) ==
    _reconstruct_path_without_turn_around_from(came_from, last, <<last.node_id>>)

\* the locals of find_route_without_turn_around when it enters its loop
find_route_without_turn_around_start(c) ==
    [queue |-> <<_AStarQueueItem(c.start, 0,
                     haversine_earth_distance(get_node(c.g, c.end).position,
                                              get_node(c.g, c.start).position),
                     None)>>,
     came_from |-> EmptyFun,
     known_costs |-> FunSet(EmptyFun, _NodeAndBefore(c.start, None), 0),
     steps |-> 0, pc |-> "loop", result |-> <<>>]

\* one edge of the expanded item: skipped when it turns around, queued when
\* this way to the neighbour, coming from the item, is cheaper than the known one
find_route_without_turn_around_edge(c, item, s, edge) ==
    IF IsTurnAround(get_node(c.g, edge[1]),
                    _NodeAndBefore(item.node_id, item.external_id_before))
    THEN s
    ELSE IF CostBelowKnown(item.cost + edge[2], s.known_costs,
                           _NodeAndBefore(edge[1],
                                          Some(get_node(c.g, item.node_id).external_id)))
    THEN [s EXCEPT
            !.came_from = FunSet(@, _NodeAndBefore(edge[1],
                                        Some(get_node(c.g, item.node_id).external_id)),
                                 _NodeAndBefore(item.node_id, item.external_id_before)),
            !.known_costs = FunSet(@, _NodeAndBefore(edge[1],
                                          Some(get_node(c.g, item.node_id).external_id)),
                                   item.cost + edge[2]),
            !.queue = heappush(@, _AStarQueueItem(edge[1], item.cost + edge[2],
                          item.cost + edge[2]
                          + haversine_earth_distance(get_node(c.g, c.end).position,
                                                     get_node(c.g, edge[1]).position),
                          Some(get_node(c.g, item.node_id).external_id)))]
    ELSE s

RECURSIVE find_route_without_turn_around_edges(_, _, _, _)
find_route_without_turn_around_edges(c, item, s, i) ==
    IF i > Len(get_edges(c.g.edges, item.node_id)) THEN s
    ELSE find_route_without_turn_around_edges(c, item,
             find_route_without_turn_around_edge(c, item, s,
                                                 get_edges(c.g.edges, item.node_id)[i]),
             i + 1)

find_route_without_turn_around_item(c, item, s) ==
    IF item.node_id = c.end
    THEN [s EXCEPT !.pc = "returned",
                   !.result = _reconstruct_path_without_turn_around(
                                  s.came_from,
                                  _NodeAndBefore(item.node_id, item.external_id_before))]
    ELSE IF CostAboveKnown(item.cost, s.known_costs,
                           _NodeAndBefore(item.node_id, item.external_id_before))
    THEN s
    ELSE IF ExceedsLimit(s.steps + 1, c.step_limit)
    THEN [s EXCEPT !.steps = @ + 1, !.pc = "raised"]
    ELSE find_route_without_turn_around_edges(c, item, [s EXCEPT !.steps = @ + 1], 1)

find_route_without_turn_around_iteration(c, s) ==
    IF s.queue = <<>> THEN [s EXCEPT !.pc = "returned", !.result = <<>>]
    ELSE find_route_without_turn_around_item(c, heappop_item(s.queue),
                                             [s EXCEPT !.queue = heappop_heap(@)])

\* a search run from s to its end
RECURSIVE find_route_from(_, _)
find_route_from(c, s) ==
    IF s.pc # "loop" THEN s ELSE find_route_from(c, find_route_iteration(c, s))

RECURSIVE find_route_without_turn_around_from(_, _)
find_route_without_turn_around_from(c, s) ==
    IF s.pc # "loop" THEN s
    ELSE find_route_without_turn_around_from(c, find_route_without_turn_around_iteration(c, s))

\* the outcome of a whole call: [pc, result, ...]
find_route(c) == find_route_from(c, find_route_start(c))
find_route_without_turn_around(c) ==
    find_route_without_turn_around_from(c, find_route_without_turn_around_start(c))

(***************************************************************************)
(* The state machine of a graph fed by add_features                        *)
(***************************************************************************)
VARIABLES
    nodes,                      \* Graph.nodes
    edges,                      \* Graph.edges
    _phantom_node_id_counter,   \* Graph._phantom_node_id_counter
    pc,                         \* "idle", "building" (inside add_features), "raised"
    unused_nodes,               \* _GraphBuilder.unused_nodes
    way_nodes,                  \* _GraphBuilder.way_nodes
    batch,                      \* the features the current call has consumed
    applied,                    \* the restrictions the current call has applied
    history,                    \* one record per call that has returned or raised
    call,                       \* the arguments of the search, an Optional
                                \* [g, start, end, step_limit]
    func,                       \* "find_route" or "find_route_without_turn_around"
    queue,                      \* the locals of the search
    came_from,
    known_costs,
    steps,
    rpc,                        \* "idle", "loop", "returned", "raised" (StepLimitExceeded)
    result,                     \* the list returned
    pops                        \* what the search has popped: the items, each with the
                                \* cost known for its key when it was popped

G == [nodes |-> nodes, edges |-> edges, ctr |-> _phantom_node_id_counter]
B == [unused_nodes |-> unused_nodes, way_nodes |-> way_nodes]

builderVars == <<nodes, edges, _phantom_node_id_counter, pc, unused_nodes, way_nodes,
                 batch, applied, history>>

\* the locals of the search, as the search operators take them
S == [queue |-> queue, came_from |-> came_from, known_costs |-> known_costs,
      steps |-> steps, pc |-> rpc, result |-> result]

routerVars == <<call, func, queue, came_from, known_costs, steps, rpc, result, pops>>
vars == <<builderVars, routerVars>>

InitRouter ==
    /\ call = None
    /\ func = "none"
    /\ queue = <<>>
    /\ came_from = EmptyFun
    /\ known_costs = EmptyFun
    /\ steps = 0
    /\ rpc = "idle"
    /\ result = <<>>
    /\ pops = <<>>

InitBuilder ==
    /\ nodes = NewGraph.nodes
    /\ edges = NewGraph.edges
    /\ _phantom_node_id_counter = NewGraph.ctr
    /\ pc = "idle"
    /\ unused_nodes = {}
    /\ way_nodes = EmptyFun
    /\ batch = <<>>
    /\ applied = <<>>
    /\ history = <<>>

SetGraph(g) ==
    /\ nodes' = g.nodes
    /\ edges' = g.edges
    /\ _phantom_node_id_counter' = g.ctr

SetBuilder(b) ==
    /\ unused_nodes' = b.unused_nodes
    /\ way_nodes' = b.way_nodes

\* Graph.add_features is called: _GraphBuilder.add_features_to makes a builder
Call ==
    /\ pc \in {"idle", "raised"}
    /\ Len(history) < MaxCalls
    /\ pc' = "building"
    /\ SetBuilder(NewBuilder)
    /\ batch' = <<>>
    /\ applied' = <<>>
    /\ UNCHANGED <<nodes, edges, _phantom_node_id_counter, history>>
    /\ UNCHANGED routerVars

\* the record of a finished call: its batch, whether it was a repetition of
\* the batch before, the graph as the call found it, whether it raised
CallRecord(features, repeat, before, raised) ==
    [batch |-> features, repeat |-> repeat, before |-> before, raised |-> raised]

\* the builder takes the next feature of the stream; a ValueError leaves
\* add_features at once, without cleanup
Feed(feature) ==
    /\ pc = "building"
    /\ LET o == add_feature(G, B, feature)
           route == IF feature.kind = "relation" THEN RestrictionRoute(G, B, feature) ELSE None
       IN /\ SetGraph(o.g)
          /\ SetBuilder(o.b)
          /\ pc' = IF o.raised THEN "raised" ELSE "building"
          /\ applied' = IF route # None /\ RouteWalks(G, route[1])
                        THEN Append(applied, [route |-> route[1],
                                              mandatory |-> feature.restriction = "MANDATORY"])
                        ELSE applied
          /\ history' = IF o.raised
                         THEN Append(history, CallRecord(Append(batch, feature), FALSE,
                                                         G, TRUE))
                         ELSE history
    /\ batch' = Append(batch, feature)
    /\ UNCHANGED routerVars

AddNode(node) == node.kind = "node" /\ Feed(node)
AddWay(way) == way.kind = "way" /\ Feed(way)
AddRelation(relation) == relation.kind = "relation" /\ Feed(relation)

\* the stream is exhausted: cleanup, and add_features returns
Return ==
    /\ pc = "building"
    /\ SetGraph(cleanup(G, B))
    /\ pc' = "idle"
    /\ history' = Append(history, CallRecord(batch, FALSE, G, FALSE))
    /\ UNCHANGED <<unused_nodes, way_nodes, batch, applied>>
    /\ UNCHANGED routerVars

\* add_features is called again with the batch of the call before, and returns
Repeat ==
    /\ pc = "idle"
    /\ history # <<>>
    /\ Len(history) < MaxCalls
    /\ LET o == add_features_to(G, Last(history).batch)
       IN /\ ~o.raised
          /\ SetGraph(o.g)
          /\ SetBuilder(o.b)
    /\ history' = Append(history, CallRecord(Last(history).batch, TRUE, G, FALSE))
    /\ UNCHANGED <<pc, batch, applied>>
    /\ UNCHANGED routerVars

(***************************************************************************)
(* The feature streams                                                     *)
(* A stream lists its nodes (1, 2, ... in turn), then its ways, then its   *)
(* relations.  Over all the calls on one graph at most maxWays ways and    *)
(* maxRels relations are drawn.                                            *)
(***************************************************************************)
OfKind(features, kind) == SelectSeq(features, LAMBDA f : f.kind = kind)

RECURSIVE DrawnBefore(_, _)
DrawnBefore(kind, i) ==
    IF i = 0 THEN 0
    ELSE DrawnBefore(kind, i - 1)
         + (IF history[i].repeat THEN 0 ELSE Len(OfKind(history[i].batch, kind)))
Drawn(kind) == DrawnBefore(kind, Len(history)) + Len(OfKind(batch, kind))

\* the next node of the stream; a later call gives the node another position
NodeInputs(maxNode) ==
    IF OfKind(batch, "way") = <<>> /\ OfKind(batch, "relation") = <<>>
    THEN {[kind |-> "node", id |-> n, position |-> n + Len(history)] :
             n \in {Len(batch) + 1} \cap 1..maxNode}
    ELSE {}

\* a node whose id is not below _MAX_NODE_ID: add_node raises ValueError
BigNodeInputs ==
    IF OfKind(batch, "way") = <<>> /\ OfKind(batch, "relation") = <<>>
    THEN {[kind |-> "node", id |-> _MAX_NODE_ID, position |-> 0]}
    ELSE {}

\* a way of the stream joins two nodes a < c, and the stream lists its ways
\* in increasing order of <<a, c>>
Follows(way_list, ways) ==
    \/ ways = <<>>
    \/ LET prev == Last(ways).nodes
       IN prev[1] < way_list[1] \/ (prev[1] = way_list[1] /\ prev[2] < way_list[2])

WayInputs(maxNode, maxWays) ==
    IF OfKind(batch, "relation") = <<>> /\ Drawn("way") < maxWays
    THEN {[kind |-> "way", id |-> Len(OfKind(batch, "way")) + 1, nodes |-> ac,
           penalty |-> Some(1), forward |-> TRUE, backward |-> TRUE] :
             ac \in {p \in (1..maxNode) \X (1..maxNode) :
                        p[1] < p[2] /\ Follows(p, OfKind(batch, "way"))}}
    ELSE {}

Member(type, ref, role) == [type |-> type, ref |-> ref, role |-> role]

\* The relations of the stream are restrictions with a from way, one via
\* member and a to way that chain end to end; a via way is another way than
\* the from and to ways.
ViaInputs(maxNode, f, t) ==
    {Member("node", n, "via") : n \in 1..maxNode}
    \cup {Member("way", w, "via") : w \in (DOMAIN way_nodes) \ {f, t}}

RelationInputs(maxNode, maxRels) ==
    IF Drawn("relation") < maxRels
    THEN {r \in UNION {{[kind |-> "relation", id |-> Len(OfKind(batch, "relation")) + 1,
                         restriction |-> kd,
                         members |-> <<Member("way", ft[1], "from"), via,
                                       Member("way", ft[2], "to")>>] :
                           kd \in {"PROHIBITORY", "MANDATORY"},
                           via \in ViaInputs(maxNode, ft[1], ft[2])} :
                       ft \in (DOMAIN way_nodes) \X (DOMAIN way_nodes)} :
             RestrictionRoute(G, B, r) # None}
    ELSE {}

(***************************************************************************)
(* Spec: a graph is fed one stream by add_features, and may then be fed    *)
(* the same stream again.                                                  *)
(***************************************************************************)
FirstCall == history = <<>> /\ Call

Next ==
    \/ FirstCall
    \/ \E node \in NodeInputs(MaxNode) : AddNode(node)
    \/ \E way \in WayInputs(MaxNode, MaxWays) : AddWay(way)
    \/ \E relation \in RelationInputs(MaxNode, MaxRels) : AddRelation(relation)
    \/ Return
    \/ Repeat

Init == InitBuilder /\ InitRouter

Spec == Init /\ [][Next]_vars

(***************************************************************************)
(* SpecCalls: a graph is fed by a sequence of add_features calls, each     *)
(* with a stream of its own; a call may raise on a node with a big id.     *)
(***************************************************************************)
NextCalls ==
    \/ Call
    \/ \E node \in NodeInputs(CallsMaxNode) \cup BigNodeInputs : AddNode(node)
    \/ \E way \in WayInputs(CallsMaxNode, CallsMaxWays) : AddWay(way)
    \/ \E relation \in RelationInputs(CallsMaxNode, CallsMaxRels) : AddRelation(relation)
    \/ Return

SpecCalls == Init /\ [][NextCalls]_vars

(***************************************************************************)
(* The state machine of a search                                           *)
(***************************************************************************)
SetSearch(s) ==
    /\ queue' = s.queue
    /\ came_from' = s.came_from
    /\ known_costs' = s.known_costs
    /\ steps' = s.steps
    /\ rpc' = s.pc
    /\ result' = s.result

\* what is noted of a popped item
Popped(item, key) ==
    [item |-> item,
     known |-> IF key \in DOMAIN known_costs THEN Some(known_costs[key]) ELSE None]

\* find_route(g, start, end, distance, step_limit) is called and reaches its loop
CallFindRoute(c) ==
    /\ rpc = "idle"
    /\ call' = Some(c)
    /\ func' = "find_route"
    /\ SetSearch(find_route_start(c))
    /\ pops' = <<>>
    /\ UNCHANGED builderVars

\* one turn of the loop of find_route
FindRouteIteration ==
    /\ rpc = "loop"
    /\ func = "find_route"
    /\ SetSearch(find_route_iteration(call[1], S))
    /\ pops' = IF queue = <<>> THEN pops
               ELSE Append(pops, Popped(heappop_item(queue), heappop_item(queue).node_id))
    /\ UNCHANGED <<call, func, builderVars>>

CallFindRouteWithoutTurnAround(c) ==
    /\ rpc = "idle"
    /\ call' = Some(c)
    /\ func' = "find_route_without_turn_around"
    /\ SetSearch(find_route_without_turn_around_start(c))
    /\ pops' = <<>>
    /\ UNCHANGED builderVars

FindRouteWithoutTurnAroundIteration ==
    /\ rpc = "loop"
    /\ func = "find_route_without_turn_around"
    /\ SetSearch(find_route_without_turn_around_iteration(call[1], S))
    /\ pops' = IF queue = <<>> THEN pops
               ELSE Append(pops, Popped(heappop_item(queue),
                                        _NodeAndBefore(heappop_item(queue).node_id,
                                                       heappop_item(queue).external_id_before)))
    /\ UNCHANGED <<call, func, builderVars>>

(***************************************************************************)
(* The graphs searched                                                     *)
(* Nodes 1..n; at most maxEdges edges, none a loop and none out of node n, *)
(* with costs 0..maxCost; each dict of edges lists its neighbours in       *)
(* increasing order.  Nodes 1 and n are at position 0, the others at       *)
(* 0..maxPos.  The searches go from node 1 to node n or to node 1.         *)
(***************************************************************************)
CandidateEdges(n) == {e \in (1..n) \X (1..n) : e[1] # e[2] /\ e[1] # n}

EdgeSets(n, maxEdges) == {E \in SUBSET CandidateEdges(n) : Cardinality(E) <= maxEdges}

Positions(n, maxPos) == {p \in [1..n -> 0..maxPos] : p[1] = 0 /\ p[n] = 0}

\* every node its own external id
OwnIds(n) == {[i \in 1..n |-> i]}
\* or one node a phantom node of node 1
WithPhantom(n) == OwnIds(n) \cup {[i \in 1..n |-> IF i = k THEN 1 ELSE i] : k \in 2..n}

RECURSIVE DictOf(_)
DictOf(pairs) ==
    IF pairs = {} THEN <<>>
    ELSE LET first == CHOOSE x \in pairs : \A y \in pairs : x[1] <= y[1]
         IN <<first>> \o DictOf(pairs \ {first})

GraphOf(n, E, cost, position, external_id) ==
    [nodes |-> [i \in 1..n |-> GraphNode(i, position[i], external_id[i])],
     edges |-> [a \in {e[1] : e \in E} |->
                   DictOf({<<e[2], cost[e]>> : e \in {x \in E : x[1] = a}})]]

Call_(g, start, end, step_limit) ==
    [g |-> g, start |-> start, end |-> end, step_limit |-> step_limit]

(***************************************************************************)
(* SpecRoute: find_route without a step limit.  The program runs on until  *)
(* it returns.                                                             *)
(***************************************************************************)
NextRoute ==
    \/ /\ rpc = "idle"
       /\ \E E \in EdgeSets(RouteMaxNode, RouteMaxEdges) :
          \E cost \in [E -> 0..RouteMaxCost] :
          \E position \in Positions(RouteMaxNode, RouteMaxPos) :
          \E end \in {1, RouteMaxNode} :
              CallFindRoute(Call_(GraphOf(RouteMaxNode, E, cost, position,
                                          [i \in 1..RouteMaxNode |-> i]),
                                  1, end, None))
    \/ FindRouteIteration

SpecRoute == Init /\ [][NextRoute]_vars /\ WF_vars(FindRouteIteration)

(***************************************************************************)
(* SpecNoTurnAround: find_route_without_turn_around without a step limit   *)
(***************************************************************************)
NextNoTurnAround ==
    \/ /\ rpc = "idle"
       /\ \E E \in EdgeSets(RouteMaxNode, RouteMaxEdges) :
          \E cost \in [E -> 0..TurnMaxCost] :
          \E position \in Positions(RouteMaxNode, TurnMaxPos) :
          \E external_id \in WithPhantom(RouteMaxNode) :
          \E end \in {1, RouteMaxNode} :
              CallFindRouteWithoutTurnAround(
                  Call_(GraphOf(RouteMaxNode, E, cost, position, external_id),
                        1, end, None))
    \/ FindRouteWithoutTurnAroundIteration

SpecNoTurnAround == Init /\ [][NextNoTurnAround]_vars

(***************************************************************************)
(* SpecLimit: both searches with a step limit of 0..MaxStepLimit           *)
(***************************************************************************)
NextLimit ==
    \/ /\ rpc = "idle"
       /\ \E E \in EdgeSets(RouteMaxNode, RouteMaxEdges) :
          \E cost \in [E -> 0..TurnMaxCost] :
          \E position \in Positions(RouteMaxNode, TurnMaxPos) :
          \E end \in {1, RouteMaxNode} :
          \E step_limit \in 0..MaxStepLimit :
              CallFindRoute(Call_(GraphOf(RouteMaxNode, E, cost, position,
                                          [i \in 1..RouteMaxNode |-> i]),
                                  1, end, Some(step_limit)))
    \/ FindRouteIteration
    \/ /\ rpc = "idle"
       /\ \E E \in EdgeSets(RouteMaxNode, RouteMaxEdges) :
          \E cost \in [E -> 0..TurnMaxCost] :
          \E position \in Positions(RouteMaxNode, TurnMaxPos) :
          \E external_id \in WithPhantom(RouteMaxNode) :
          \E end \in {1, RouteMaxNode} :
          \E step_limit \in 0..MaxStepLimit :
              CallFindRouteWithoutTurnAround(
                  Call_(GraphOf(RouteMaxNode, E, cost, position, external_id),
                        1, end, Some(step_limit)))
    \/ FindRouteWithoutTurnAroundIteration

SpecLimit == Init /\ [][NextLimit]_vars

(***************************************************************************)
(* Paths of the graph, projected through external_id                       *)
(***************************************************************************)
ExternalId(g, id) == g.nodes[id].external_id
OutNeighbours(g, id) == IF id \in DOMAIN g.edges THEN DictKeySet(g.edges[id]) ELSE {}

\* the graph nodes at which a graph path can end whose projection is route[1..i]
RECURSIVE PathEnds(_, _, _)
PathEnds(g, route, i) ==
    IF i = 1 THEN {x \in DOMAIN g.nodes : ExternalId(g, x) = route[1]}
    ELSE {y \in UNION {OutNeighbours(g, x) : x \in PathEnds(g, route, i - 1)} :
             y \in DOMAIN g.nodes /\ ExternalId(g, y) = route[i]}

\* some graph path projects to the whole route
ProjectedPathExists(g, route) == PathEnds(g, route, Len(route)) # {}

\* every edge out of x, which stands for route[i], leads to a node standing for
\* route[i + 1], from which the same holds up to the end of the route
RECURSIVE ForcedFrom(_, _, _, _)
ForcedFrom(g, route, x, i) ==
    \/ i = Len(route)
    \/ \A y \in OutNeighbours(g, x) :
           /\ ExternalId(g, y) = route[i + 1]
           /\ ForcedFrom(g, route, y, i + 1)

Returned == pc = "idle" /\ history # <<>>
ReturnedFresh == Returned /\ ~Last(history).repeat

(***************************************************************************)
(* C1: after add_features returns, no graph path projects onto a slice     *)
(* equal to the route of a prohibitory restriction the call applied.       *)
(***************************************************************************)
C1_ProhibitedRouteAbsent ==
    ReturnedFresh =>
        \A i \in 1..Len(applied) :
            ~applied[i].mandatory => ~ProjectedPathExists(G, applied[i].route)

(***************************************************************************)
(* C2: after add_features returns, every graph path that enters the route  *)
(* of a mandatory restriction the call applied (n0 then n1, projected)     *)
(* continues along the rest of the route for as long as it extends.        *)
(***************************************************************************)
C2_MandatoryRouteForced ==
    ReturnedFresh =>
        \A i \in 1..Len(applied) :
            applied[i].mandatory =>
                \A x \in PathEnds(G, applied[i].route, 2) :
                    ForcedFrom(G, applied[i].route, x, 2)

\* restriction i of the call is enforced in g: its route is absent if it is
\* prohibitory, forced if it is mandatory
Enforced(g, i) ==
    IF applied[i].mandatory
    THEN \A x \in PathEnds(g, applied[i].route, 2) : ForcedFrom(g, applied[i].route, x, 2)
    ELSE ~ProjectedPathExists(g, applied[i].route)

(***************************************************************************)
(* C10: a second add_features call with the same batch leaves nodes, edges *)
(* and the phantom id counter as the first call left them, and every       *)
(* restriction that was enforced after the first call still is.            *)
(***************************************************************************)
C10_RepeatIsNoOp ==
    (Returned /\ Last(history).repeat) =>
        /\ G = Last(history).before
        /\ \A i \in 1..Len(applied) : Enforced(Last(history).before, i) => Enforced(G, i)

(***************************************************************************)
(* C6: after every return of add_features, every node id that appears in   *)
(* edges, as a source or as a destination, is a key of nodes.              *)
(***************************************************************************)
EdgeIds(g) == DOMAIN g.edges \cup UNION {DictKeySet(g.edges[a]) : a \in DOMAIN g.edges}

C6_EdgeIdsAreNodes == Returned => EdgeIds(G) \subseteq DOMAIN nodes

\* a second call has returned on a graph with a phantom node, and its cleanup
\* has deleted a node of its batch
C6_Witness ==
    /\ Returned
    /\ Len(history) = 2
    /\ \E id \in EdgeIds(G) : id >= _MAX_NODE_ID
    /\ \E i \in 1..Len(batch) : batch[i].kind = "node" /\ batch[i].id \notin DOMAIN nodes

(***************************************************************************)
(* C7: after every return of add_features, a node with an id below         *)
(* _MAX_NODE_ID has its id as external_id; a node with an id at or above   *)
(* it has an external_id below it, and the regular node with that id is in *)
(* the graph, at the same position.                                        *)
(***************************************************************************)
C7_ExternalIds ==
    Returned =>
        \A id \in DOMAIN nodes :
            /\ nodes[id].id = id
            /\ id < _MAX_NODE_ID => nodes[id].external_id = id
            /\ id >= _MAX_NODE_ID =>
                   /\ nodes[id].external_id < _MAX_NODE_ID
                   /\ nodes[id].external_id \in DOMAIN nodes
                   /\ nodes[nodes[id].external_id].position = nodes[id].position

\* a second call has returned whose batch lists, with another position, the
\* node a phantom node was cloned from
C7_Witness ==
    /\ Returned
    /\ Len(history) = 2
    /\ \E id \in DOMAIN nodes :
           /\ id >= _MAX_NODE_ID
           /\ \E i \in 1..Len(batch) :
                  /\ batch[i].kind = "node"
                  /\ batch[i].id = nodes[id].external_id
                  /\ batch[i].position # nodes[id].position

(***************************************************************************)
(* Walks of a graph and their costs                                        *)
(***************************************************************************)
IsWalk(g, p) ==
    /\ p # <<>>
    /\ \A i \in 1..Len(p) : p[i] \in DOMAIN g.nodes
    /\ \A i \in 1..(Len(p) - 1) : p[i + 1] \in OutNeighbours(g, p[i])

RECURSIVE WalkCost(_, _)
WalkCost(g, p) ==
    IF Len(p) < 2 THEN 0
    ELSE DictGet(g.edges[p[1]], p[2]) + WalkCost(g, Tail(p))

\* no three consecutive nodes x, y, z of p with external_id(z) = external_id(x)
NoTurnAround(g, p) ==
    \A i \in 1..(Len(p) - 2) : ExternalId(g, p[i + 2]) # ExternalId(g, p[i])

\* the walks from a node that visit no node twice: with costs that are not
\* negative, a cheapest walk between two nodes is among them
RECURSIVE SimpleWalksGrown(_, _, _)
SimpleWalksGrown(g, all, frontier) ==
    IF frontier = {} THEN all
    ELSE LET longer == {Append(p, y) : p \in frontier, y \in DOMAIN g.nodes}
             next == {q \in longer : /\ q[Len(q)] \in OutNeighbours(g, q[Len(q) - 1])
                                     /\ \A i \in 1..(Len(q) - 1) : q[i] # q[Len(q)]}
         IN SimpleWalksGrown(g, all \cup next, next)

SimpleWalks(g, from) == SimpleWalksGrown(g, {<<from>>}, {<<from>>})
Routes(g, from, to) == {p \in SimpleWalks(g, from) : Last(p) = to}

\* the node a walk is at, with the external id of the node before
Arrival(g, p, i) == <<p[i], IF i = 1 THEN None ELSE Some(ExternalId(g, p[i - 1]))>>

\* the walks from a node that never turn around and never arrive twice at a
\* node from the same external id: a cheapest walk without a turn-around
\* between two nodes is among them
RECURSIVE TurnFreeWalksGrown(_, _, _)
TurnFreeWalksGrown(g, all, frontier) ==
    IF frontier = {} THEN all
    ELSE LET longer == {Append(p, y) : p \in frontier, y \in DOMAIN g.nodes}
             next == {q \in longer :
                         /\ q[Len(q)] \in OutNeighbours(g, q[Len(q) - 1])
                         /\ NoTurnAround(g, q)
                         /\ \A i \in 1..(Len(q) - 1) :
                                Arrival(g, q, i) # Arrival(g, q, Len(q))}
         IN TurnFreeWalksGrown(g, all \cup next, next)

TurnFreeWalks(g, from) == TurnFreeWalksGrown(g, {<<from>>}, {<<from>>})
TurnFreeRoutes(g, from, to) == {p \in TurnFreeWalks(g, from) : Last(p) = to}

\* the distance function never overestimates the cost that remains to the end
NeverOverestimates(c) ==
    \A n \in DOMAIN c.g.nodes :
        \A p \in Routes(c.g, n, c.end) :
            haversine_earth_distance(c.g.nodes[c.end].position, c.g.nodes[n].position)
                <= WalkCost(c.g, p)

\* a popped item that is neither the end node nor stale
IsExpansion(pop) ==
    /\ pop.item.node_id # call[1].end
    /\ ~(pop.known # None /\ pop.item.cost > pop.known[1])

Expansions == Cardinality({i \in 1..Len(pops) : IsExpansion(pops[i])})

(***************************************************************************)
(* C3: with step_limit None, costs that are not negative and a distance    *)
(* that never overestimates, find_route returns, when end is reachable, a  *)
(* walk from start to end of the least cost.                               *)
(***************************************************************************)
C3_FindRouteOptimal ==
    (/\ func = "find_route"
     /\ rpc = "returned"
     /\ call[1].step_limit = None
     /\ NeverOverestimates(call[1])
     /\ Routes(call[1].g, call[1].start, call[1].end) # {}) =>
        /\ IsWalk(call[1].g, result)
        /\ result[1] = call[1].start
        /\ Last(result) = call[1].end
        /\ \A p \in Routes(call[1].g, call[1].start, call[1].end) :
               WalkCost(call[1].g, result) <= WalkCost(call[1].g, p)

\* find_route has returned a route of four nodes, having popped a stale item:
\* a node of the route was queued twice, the second time at a lower cost
C3_Witness ==
    /\ func = "find_route"
    /\ rpc = "returned"
    /\ NeverOverestimates(call[1])
    /\ Len(result) = 4
    /\ \E i \in 1..Len(pops) : pops[i].known # None /\ pops[i].item.cost > pops[i].known[1]

(***************************************************************************)
(* C8: with step_limit None and costs that are not negative find_route     *)
(* terminates, and what it returns is the empty list exactly when end is   *)
(* not reachable from start.                                               *)
(***************************************************************************)
C8_TerminatesEmptyIffUnreachable ==
    /\ (rpc = "loop") ~> (rpc = "returned")
    /\ [](rpc = "returned" =>
             (result = <<>> <=> Routes(call[1].g, call[1].start, call[1].end) = {}))

\* find_route has returned the empty list after three expansions, on a graph
\* with a cycle of cost 0
C8_Witness ==
    /\ func = "find_route"
    /\ rpc = "returned"
    /\ result = <<>>
    /\ steps = 3
    /\ \E p \in SimpleWalks(call[1].g, 2) :
           /\ Len(p) > 1
           /\ call[1].g.nodes[Last(p)].id \in DOMAIN call[1].g.edges
           /\ 2 \in OutNeighbours(call[1].g, Last(p))
           /\ WalkCost(call[1].g, Append(p, 2)) = 0

(***************************************************************************)
(* C4: a list that find_route_without_turn_around returns, unless empty,   *)
(* is a walk of g from start to end with no three consecutive nodes x, y,  *)
(* z such that external_id(z) = external_id(x).                            *)
(***************************************************************************)
C4_NoTurnAroundInResult ==
    (/\ func = "find_route_without_turn_around"
     /\ rpc = "returned"
     /\ result # <<>>) =>
        /\ IsWalk(call[1].g, result)
        /\ result[1] = call[1].start
        /\ Last(result) = call[1].end
        /\ NoTurnAround(call[1].g, result)

\* the search has returned a route although a cheaper walk from start to end
\* exists, one that turns around at a phantom node (x and z are two nodes)
C4_Witness ==
    /\ func = "find_route_without_turn_around"
    /\ rpc = "returned"
    /\ result # <<>>
    /\ \E p \in Routes(call[1].g, call[1].start, call[1].end) :
           /\ WalkCost(call[1].g, p) < WalkCost(call[1].g, result)
           /\ ~NoTurnAround(call[1].g, p)

(***************************************************************************)
(* C5: with step_limit None and a distance that never overestimates,       *)
(* find_route_without_turn_around returns a walk of the least cost among   *)
(* the walks from start to end without a turn-around, and the empty list   *)
(* exactly when there is no such walk.                                     *)
(***************************************************************************)
C5_NoTurnAroundOptimal ==
    (/\ func = "find_route_without_turn_around"
     /\ rpc = "returned"
     /\ call[1].step_limit = None
     /\ NeverOverestimates(call[1])) =>
        /\ result = <<>> <=> TurnFreeRoutes(call[1].g, call[1].start, call[1].end) = {}
        /\ result # <<>> =>
              /\ IsWalk(call[1].g, result)
              /\ result[1] = call[1].start
              /\ Last(result) = call[1].end
              /\ NoTurnAround(call[1].g, result)
              /\ \A p \in TurnFreeRoutes(call[1].g, call[1].start, call[1].end) :
                     WalkCost(call[1].g, result) <= WalkCost(call[1].g, p)

\* the search has returned the empty list although end is reachable from
\* start: every walk there turns around
C5_Witness ==
    /\ func = "find_route_without_turn_around"
    /\ rpc = "returned"
    /\ NeverOverestimates(call[1])
    /\ result = <<>>
    /\ Routes(call[1].g, call[1].start, call[1].end) # {}

(***************************************************************************)
(* C9: both searches count one step for each popped item that is neither   *)
(* the end node nor stale, and raise StepLimitExceeded exactly when that   *)
(* count exceeds step_limit; a search that returns within its limit        *)
(* returns the route that the same search returns with step_limit None.    *)
(***************************************************************************)
Unlimited(c) == [c EXCEPT !.step_limit = None]

C9_StepLimit ==
    rpc # "idle" =>
        /\ steps = Expansions
        /\ rpc = "raised" <=> (call[1].step_limit # None /\ Expansions > call[1].step_limit[1])
        /\ rpc = "returned" =>
              result = IF func = "find_route"
                       THEN find_route(Unlimited(call[1])).result
                       ELSE find_route_without_turn_around(Unlimited(call[1])).result

\* a search with a limit of two steps or more has raised at the step after
\* the last one allowed
C9_Witness ==
    /\ rpc = "raised"
    /\ call[1].step_limit[1] >= 2
    /\ steps = call[1].step_limit[1] + 1
    /\ Len(pops) = steps

(***************************************************************************)
(* SpecRestrictions: one add_features call whose relations are turn        *)
(* restrictions with a from way, one via member and a to way; the via      *)
(* member is a node or any way of the batch, the from or the to way        *)
(* included, so that a route may pass a node twice.                        *)
(***************************************************************************)
AnyViaInputs(maxNode) ==
    {Member("node", n, "via") : n \in 1..maxNode}
    \cup {Member("way", w, "via") : w \in DOMAIN way_nodes}

RouteRelationInputs(maxNode, maxRels) ==
    IF Drawn("relation") < maxRels
    THEN {r \in UNION {{[kind |-> "relation", id |-> Len(OfKind(batch, "relation")) + 1,
                         restriction |-> kd,
                         members |-> <<Member("way", ft[1], "from"), via,
                                       Member("way", ft[2], "to")>>] :
                           kd \in {"PROHIBITORY", "MANDATORY"},
                           via \in AnyViaInputs(maxNode)} :
                       ft \in (DOMAIN way_nodes) \X (DOMAIN way_nodes)} :
             RestrictionRoute(G, B, r) # None}
    ELSE {}

NextRestrictions ==
    \/ FirstCall
    \/ \E node \in NodeInputs(RestrMaxNode) : AddNode(node)
    \/ \E way \in WayInputs(RestrMaxNode, RestrMaxWays) : AddWay(way)
    \/ \E relation \in RouteRelationInputs(RestrMaxNode, RestrMaxRels) : AddRelation(relation)
    \/ Return

SpecRestrictions == Init /\ [][NextRestrictions]_vars

(***************************************************************************)
(* Steps of the builder, as action formulas                                *)
(***************************************************************************)
\* the graph after the step
GNext == [nodes |-> nodes', edges |-> edges', ctr |-> _phantom_node_id_counter']

\* the step is the builder taking a feature of the kind
Fed(kind) == pc = "building" /\ Len(batch') = Len(batch) + 1 /\ Last(batch').kind = kind

\* the route of the relation the step takes, an Optional
FedRoute == RestrictionRoute(G, B, Last(batch'))

\* the step applies a restriction: the walk along its route succeeds
Applies == Fed("relation") /\ FedRoute # None /\ RouteWalks(G, FedRoute[1])

\* the step finds that the walk along the route of a restriction fails
Discards == Fed("relation") /\ FedRoute # None /\ ~RouteWalks(G, FedRoute[1])

\* the nodes that stand for the route in the walk of the step
ClonedRoute(route) == restriction_as_cloned_nodes(G, NewChange(G), route)[1].cloned_nodes

EdgeCost(g, a, b) == DictGet(g.edges[a], b)
IsPhantom(id) == id >= _MAX_NODE_ID

(***************************************************************************)
(* C11: when a restriction with the route n0, ..., n(k-1) is applied, then *)
(* afterwards n0 has no edge to the regular node n1, n0 has an edge to a   *)
(* phantom node with external_id n1 at the cost the edge from n0 to n1     *)
(* had, and every via point n1 .. n(k-2) is represented on the route by a  *)
(* phantom node of the graph; routes that pass a node twice included.      *)
(***************************************************************************)
C11_Applied(route) ==
    /\ route[2] \notin OutNeighbours(GNext, route[1])
    /\ \E p \in OutNeighbours(GNext, route[1]) :
           /\ IsPhantom(p)
           /\ ExternalId(GNext, p) = route[2]
           /\ \E x \in OutNeighbours(G, route[1]) :
                  /\ ExternalId(G, x) = route[2]
                  /\ EdgeCost(GNext, route[1], p) = EdgeCost(G, route[1], x)
    /\ \A i \in 2..(Len(route) - 1) :
           /\ IsPhantom(ClonedRoute(route)[i])
           /\ ClonedRoute(route)[i] \in DOMAIN nodes'
           /\ ExternalId(GNext, ClonedRoute(route)[i]) = route[i]

C11_RestrictionClonesViaPoints == [][Applies => C11_Applied(FedRoute[1])]_vars

(***************************************************************************)
(* C12: after a mandatory restriction with the route n0, ..., n(k-1) is    *)
(* applied, each phantom node on the route that stands for a via point n_i *)
(* has exactly one outgoing edge, and it leads to the node that stands for *)
(* n_(i+1) on the route.                                                   *)
(***************************************************************************)
C12_Applied(route) ==
    \A i \in 2..(Len(route) - 1) :
        IsPhantom(ClonedRoute(route)[i]) =>
            /\ OutNeighbours(GNext, ClonedRoute(route)[i]) = {ClonedRoute(route)[i + 1]}
            /\ ExternalId(GNext, ClonedRoute(route)[i + 1]) = route[i + 1]

C12_MandatoryLeavesOneEdge ==
    [][(Applies /\ Last(batch').restriction = "MANDATORY") => C12_Applied(FedRoute[1])]_vars

\* a mandatory restriction along a via way has been applied second, and two
\* phantom nodes of its route have one outgoing edge each
C12_Witness ==
    /\ pc = "building"
    /\ Len(applied) = 2
    /\ Last(applied).mandatory
    /\ Len(Last(applied).route) = 4
    /\ \E p, q \in DOMAIN nodes :
           /\ IsPhantom(p) /\ IsPhantom(q)
           /\ ExternalId(G, p) = Last(applied).route[2]
           /\ ExternalId(G, q) = Last(applied).route[3]
           /\ p \in OutNeighbours(G, Last(applied).route[1])
           /\ OutNeighbours(G, p) = {q}
           /\ Cardinality(OutNeighbours(G, q)) = 1

(***************************************************************************)
(* C13: when the walk along the route of a restriction finds no edge from  *)
(* the current node to a node with the next external id, the restriction   *)
(* is discarded: nodes, edges and the phantom id counter are as they were  *)
(* before the relation, also when the walk had staged clones by then.      *)
(***************************************************************************)
C13_FailedWalkChangesNothing == [][Discards => GNext = G]_vars

\* the relation taken last was discarded, and its walk had made a clone of
\* the first via point before it failed
C13_Witness ==
    /\ pc = "building"
    /\ batch # <<>>
    /\ Last(batch).kind = "relation"
    /\ RestrictionRoute(G, B, Last(batch)) # None
    /\ ~RouteWalks(G, RestrictionRoute(G, B, Last(batch))[1])
    /\ _get_to_node_id(G, NewChange(G), RestrictionRoute(G, B, Last(batch))[1][1],
                       RestrictionRoute(G, B, Last(batch))[1][2])
           = Some(RestrictionRoute(G, B, Last(batch))[1][2])
    /\ RestrictionRoute(G, B, Last(batch))[1][2] # Last(RestrictionRoute(G, B, Last(batch))[1])
    /\ Len(applied) < Len(OfKind(batch, "relation"))

(***************************************************************************)
(* Two mandatory restrictions with the same entry n0 -> n1 conflict when   *)
(* their routes part at some point after n1.                               *)
(***************************************************************************)
Parts(r1, r2) ==
    \E j \in 3..Len(r1) : j <= Len(r2) /\ r1[j] # r2[j]

\* the step takes a mandatory restriction that conflicts with restriction i
\* of the restrictions applied so far
ConflictsWith(i) ==
    /\ Fed("relation")
    /\ Last(batch').restriction = "MANDATORY"
    /\ FedRoute # None
    /\ applied[i].mandatory
    /\ applied[i].route[1] = FedRoute[1][1]
    /\ applied[i].route[2] = FedRoute[1][2]
    /\ Parts(applied[i].route, FedRoute[1])

\* the phantom nodes of g that stand for n1 on the entry n0 -> n1 of the route
EntryClones(g, route) ==
    {p \in OutNeighbours(g, route[1]) : IsPhantom(p) /\ ExternalId(g, p) = route[2]}

(***************************************************************************)
(* C15: a mandatory restriction processed after another one with the same  *)
(* entry n0 -> n1 and a different continuation is ignored: nodes, edges    *)
(* and the phantom id counter stay as the first restriction left them, and *)
(* the clone of n1 keeps only the first continuation.                      *)
(***************************************************************************)
C15_ConflictingMandatoryIgnored ==
    [][\A i \in 1..Len(applied) :
           ConflictsWith(i) =>
               /\ GNext = G
               /\ \A p \in EntryClones(GNext, applied[i].route) :
                      \A y \in OutNeighbours(GNext, p) :
                          ExternalId(GNext, y) = applied[i].route[3]]_vars

\* a second mandatory restriction with the entry of the first and another
\* continuation, along an edge that leaves the regular node n1, has been taken
C15_Witness ==
    /\ pc = "building"
    /\ Len(applied) = 1
    /\ applied[1].mandatory
    /\ Len(OfKind(batch, "relation")) = 2
    /\ Last(batch).restriction = "MANDATORY"
    /\ RestrictionRoute(G, B, Last(batch)) # None
    /\ applied[1].route[1] = RestrictionRoute(G, B, Last(batch))[1][1]
    /\ applied[1].route[2] = RestrictionRoute(G, B, Last(batch))[1][2]
    /\ Parts(applied[1].route, RestrictionRoute(G, B, Last(batch))[1])
    /\ RestrictionRoute(G, B, Last(batch))[1][3] \in OutNeighbours(G, applied[1].route[2])
    /\ EntryClones(G, applied[1].route) # {}

(***************************************************************************)
(* C14: if two mandatory restrictions with the same entry n0 -> n1 force   *)
(* different continuations, then after both have been processed the later  *)
(* one wins: the outgoing edges of the shared clone of n1 are those the    *)
(* later restriction requires.                                             *)
(***************************************************************************)
\* every clone of n1 on the entry of the route leads on to route[3] alone
CloneContinues(g, entry, route) ==
    \A p \in EntryClones(g, entry) :
        /\ OutNeighbours(g, p) # {}
        /\ \A y \in OutNeighbours(g, p) : ExternalId(g, y) = route[3]

C14_LaterMandatoryWins ==
    [][\A i \in 1..Len(applied) :
           ConflictsWith(i) => CloneContinues(GNext, FedRoute[1], FedRoute[1])]_vars

(***************************************************************************)
(* C14, amended: when the later one directly follows the earlier one among *)
(* the restrictions applied, then after both have been processed the       *)
(* earlier one wins: the outgoing edges of the shared clone of n1 are      *)
(* those the earlier restriction requires.                                 *)
(***************************************************************************)
C14_EarlierMandatoryWins ==
    [][(applied # <<>> /\ ConflictsWith(Len(applied))) =>
           CloneContinues(GNext, FedRoute[1], Last(applied).route)]_vars

\* add_features has returned from a batch with two mandatory restrictions
\* through a via node, of which the first alone was applied; they share the
\* entry, and the clone of n1 leads to the n2 of the first, not of the second
C14_Witness ==
    /\ Returned
    /\ Len(applied) = 1
    /\ applied[1].mandatory
    /\ Len(applied[1].route) = 3
    /\ Len(OfKind(batch, "relation")) = 2
    /\ Last(batch).restriction = "MANDATORY"
    /\ Last(batch).members[2].type = "node"
    /\ RestrictionRoute(G, B, Last(batch)) # None
    /\ SubSeq(RestrictionRoute(G, B, Last(batch))[1], 1, 2) = SubSeq(applied[1].route, 1, 2)
    /\ RestrictionRoute(G, B, Last(batch))[1][3] # applied[1].route[3]
    /\ EntryClones(G, applied[1].route) # {}
    /\ CloneContinues(G, applied[1].route, applied[1].route)

(***************************************************************************)
(* SpecWays: one add_features call whose ways have two to WaysMaxLen node  *)
(* references, among them nodes the stream has not listed, with any answer *)
(* of the profile: a penalty or none, and any pair (forward, backward).    *)
(***************************************************************************)
\* the lists of len references to 1..maxNode, none next to itself
WayLists(maxNode, len) ==
    {l \in [1..len -> 1..maxNode] : \A j \in 1..(len - 1) : l[j] # l[j + 1]}

AnyWayInputs(maxNode, maxWays) ==
    IF OfKind(batch, "relation") = <<>> /\ Drawn("way") < maxWays
    THEN {[kind |-> "way", id |-> Len(OfKind(batch, "way")) + 1, nodes |-> l,
           penalty |-> penalty, forward |-> forward, backward |-> backward] :
             l \in UNION {WayLists(maxNode, len) : len \in 2..WaysMaxLen},
             penalty \in {None} \cup {Some(k) : k \in 1..WaysMaxPenalty},
             forward \in BOOLEAN, backward \in BOOLEAN}
    ELSE {}

NextWays ==
    \/ FirstCall
    \/ \E node \in NodeInputs(WaysMaxNode) : AddNode(node)
    \/ \E way \in AnyWayInputs(WaysMaxNode, WaysMaxWays) : AddWay(way)
    \/ \E relation \in RelationInputs(WaysMaxNode, WaysMaxRels) : AddRelation(relation)
    \/ Return

SpecWays == Init /\ [][NextWays]_vars

(***************************************************************************)
(* Ways of a batch                                                         *)
(***************************************************************************)
\* the ways of the batch that the profile gives a penalty and that refer to
\* two or more of the nodes known when the call returns
UsedBy(features, g) ==
    {i \in 1..Len(features) :
        /\ features[i].kind = "way"
        /\ features[i].penalty # None
        /\ Len(SelectSeq(features[i].nodes, LAMBDA n : n \in DOMAIN g.nodes)) >= 2}

\* the graph after the first k calls of the history: each call feeds its
\* batch to the graph the call before it has left
RECURSIVE GraphAfterCalls(_)
GraphAfterCalls(k) ==
    IF k = 0 THEN NewGraph
    ELSE add_features_to(GraphAfterCalls(k - 1), history[k].batch).g

\* the graph as the call that has finished last found it
GraphAtCall == GraphAfterCalls(Len(history) - 1)

HasEdge(g, id) ==
    \/ OutNeighbours(g, id) # {}
    \/ \E a \in DOMAIN g.edges : id \in OutNeighbours(g, a)

(***************************************************************************)
(* C16: after add_features returns, whatever the profile answers, no node  *)
(* of the graph is isolated (each has an incoming or an outgoing edge),    *)
(* and a node the batch added is retained only if a way of the batch that  *)
(* the profile accepts uses it.                                            *)
(***************************************************************************)
C16_NoIsolatedNode ==
    Returned =>
        \A id \in DOMAIN nodes :
            /\ HasEdge(G, id)
            /\ (id < _MAX_NODE_ID /\ id \notin DOMAIN GraphAtCall.nodes) =>
                   \E i \in UsedBy(batch, G) : id \in SeqSet(batch[i].nodes)

(***************************************************************************)
(* C17: a way for which way_direction answers (false, false) is dropped:   *)
(* no edge is added, its nodes are not marked as used, and the way is not  *)
(* recorded in way_nodes, so that no restriction can refer to it.          *)
(***************************************************************************)
C17_UndirectedWayDropped ==
    [][(Fed("way") /\ ~Last(batch').forward /\ ~Last(batch').backward
            /\ ~InvalidPenalty(Last(batch').penalty)) =>
           /\ edges' = edges
           /\ unused_nodes' = unused_nodes
           /\ Last(batch').id \notin DOMAIN way_nodes']_vars

(***************************************************************************)
(* C20: ingesting a way that the profile accepts sets, for every           *)
(* consecutive pair (a, b) of its known nodes, the edge a -> b if and only *)
(* if forward and the edge b -> a if and only if backward, each at the     *)
(* cost penalty * distance(a, b), and touches no other edge; a way that    *)
(* the profile rejects adds no edge, is not recorded in way_nodes and      *)
(* leaves its nodes unused.                                                *)
(***************************************************************************)
\* the references of the way to nodes of g
KnownNodes(g, way) == SelectSeq(way.nodes, LAMBDA n : n \in DOMAIN g.nodes)

\* the way sets the edge x -> y
SetsEdge(g, way, x, y) ==
    \E j \in 1..(Len(KnownNodes(g, way)) - 1) :
        \/ way.forward /\ KnownNodes(g, way)[j] = x /\ KnownNodes(g, way)[j + 1] = y
        \/ way.backward /\ KnownNodes(g, way)[j] = y /\ KnownNodes(g, way)[j + 1] = x

C20_Accepted(way) ==
    \A x, y \in DOMAIN nodes :
        IF SetsEdge(G, way, x, y)
        THEN /\ y \in OutNeighbours(GNext, x)
             /\ EdgeCost(GNext, x, y)
                    = way.penalty[1] * Abs(nodes[x].position - nodes[y].position)
        ELSE /\ y \in OutNeighbours(GNext, x) <=> y \in OutNeighbours(G, x)
             /\ y \in OutNeighbours(G, x) => EdgeCost(GNext, x, y) = EdgeCost(G, x, y)

C20_Rejected ==
    /\ edges' = edges
    /\ way_nodes' = way_nodes
    /\ unused_nodes' = unused_nodes

C20_WayEdges ==
    [][Fed("way") =>
           /\ nodes' = nodes
           /\ EdgeIds(GNext) \subseteq DOMAIN nodes
           /\ IF Last(batch').penalty = None THEN C20_Rejected
              ELSE C20_Accepted(Last(batch'))]_vars

\* a one-way way with penalty 2 and a reference to an unknown node between
\* two known ones has been taken, after a way that had set the same edge at
\* another cost
C20_Witness ==
    /\ pc = "building"
    /\ Len(OfKind(batch, "way")) = 2
    /\ Last(batch).kind = "way"
    /\ Last(batch).penalty = Some(2)
    /\ Last(batch).forward /\ ~Last(batch).backward
    /\ Len(Last(batch).nodes) = 3
    /\ Last(batch).nodes[2] \notin DOMAIN nodes
    /\ Last(batch).nodes[1] # Last(batch).nodes[3]
    /\ {Last(batch).nodes[1], Last(batch).nodes[3]} \subseteq DOMAIN nodes
    /\ batch[Len(batch) - 1].penalty = Some(1)
    /\ batch[Len(batch) - 1].forward
    /\ batch[Len(batch) - 1].nodes = <<Last(batch).nodes[1], Last(batch).nodes[3]>>
    /\ EdgeCost(G, Last(batch).nodes[1], Last(batch).nodes[3])
           = 2 * Abs(nodes[Last(batch).nodes[1]].position - nodes[Last(batch).nodes[3]].position)
    /\ Last(batch).nodes[1] \notin OutNeighbours(G, Last(batch).nodes[3])
           \/ batch[Len(batch) - 1].backward

(***************************************************************************)
(* C18: a node that is in the graph when add_features is called is in the  *)
(* graph when the call returns, with the same id, position and             *)
(* external_id, also when the batch lists its id again with another        *)
(* position and no way of the batch uses it.                               *)
(***************************************************************************)
C18_ExistingNodesKept ==
    Returned =>
        \A id \in DOMAIN GraphAtCall.nodes :
            /\ id \in DOMAIN nodes
            /\ nodes[id] = GraphAtCall.nodes[id]

\* a second call has returned whose batch lists a node of the graph again,
\* at another position, and has no way that refers to it
C18_Witness ==
    /\ Returned
    /\ Len(history) = 2
    /\ \E i \in 1..Len(batch) :
           /\ batch[i].kind = "node"
           /\ batch[i].id \in DOMAIN GraphAtCall.nodes
           /\ batch[i].position # GraphAtCall.nodes[batch[i].id].position
           /\ \A j \in 1..Len(batch) :
                  batch[j].kind = "way" => batch[i].id \notin SeqSet(batch[j].nodes)

(***************************************************************************)
(* SpecInvalid: one add_features call that lists two nodes or more, and    *)
(* whose first relation is any list of 2..InvMaxMembers members (a node or *)
(* a way, known or not, with the role from, via or to, or a relation as    *)
(* via); its later relations are restrictions with a route.                *)
(***************************************************************************)
AnyMembers ==
    {Member("node", ref, role) : ref \in 1..InvMaxNode, role \in {"from", "via", "to"}}
    \cup {Member("way", ref, role) : ref \in 1..InvMaxWays, role \in {"from", "via", "to"}}
    \cup {Member("relation", 1, "via")}

AnyRelationInputs ==
    IF Drawn("relation") = 0 /\ Len(OfKind(batch, "node")) >= 2
    THEN {[kind |-> "relation", id |-> 1, restriction |-> kd, members |-> ms] :
             kd \in {"PROHIBITORY", "MANDATORY"},
             ms \in UNION {[1..len -> AnyMembers] : len \in 2..InvMaxMembers}}
    ELSE {}

NextInvalid ==
    \/ FirstCall
    \/ \E node \in NodeInputs(InvMaxNode) : AddNode(node)
    \/ \E way \in WayInputs(InvMaxNode, InvMaxWays) : AddWay(way)
    \/ \E relation \in AnyRelationInputs : AddRelation(relation)
    \/ \E relation \in RelationInputs(InvMaxNode, InvMaxRels) : AddRelation(relation)
    \/ Return

SpecInvalid == Init /\ [][NextInvalid]_vars

(***************************************************************************)
(* Invalid restriction relations                                           *)
(***************************************************************************)
\* not exactly one from member, exactly one to member and a via member
WrongShape(r) ==
    \/ Len(WithRole(r.members, "from")) # 1
    \/ Len(WithRole(r.members, "to")) # 1
    \/ Len(WithRole(r.members, "via")) = 0

\* a from, via or to member that refers to an unknown way or node, or is of
\* an invalid type: a node that is not a via member, or neither node nor way
BadMember(g, b, r) ==
    \E i \in 1..Len(r.members) :
        /\ r.members[i].role \in {"from", "via", "to"}
        /\ \/ r.members[i].type = "way" /\ r.members[i].ref \notin DOMAIN b.way_nodes
           \/ r.members[i].type = "node" /\ r.members[i].role = "via"
                  /\ r.members[i].ref \notin DOMAIN g.nodes
           \/ r.members[i].type = "node" /\ r.members[i].role # "via"
           \/ r.members[i].type \notin {"node", "way"}

\* the members are well-formed and known, and do not chain end to end
Disjoined(g, b, r) ==
    ~WrongShape(r) /\ ~BadMember(g, b, r) /\ RestrictionRoute(g, b, r) = None

InvalidRestriction(g, b, r) ==
    r.kind = "relation" /\ (WrongShape(r) \/ BadMember(g, b, r) \/ Disjoined(g, b, r))

\* features[i..] without the relations that are invalid when the builder
\* comes to them, o being the outcome of features[1..i-1]
RECURSIVE WithoutInvalidFrom(_, _, _)
WithoutInvalidFrom(o, features, i) ==
    IF i > Len(features) THEN <<>>
    ELSE (IF InvalidRestriction(o.g, o.b, features[i]) THEN <<>> ELSE <<features[i]>>)
         \o WithoutInvalidFrom(add_feature(o.g, o.b, features[i]), features, i + 1)

WithoutInvalid(features) ==
    WithoutInvalidFrom(Outcome(NewGraph, NewBuilder, FALSE), features, 1)

(***************************************************************************)
(* C19: a restriction relation that has not exactly one from member,       *)
(* exactly one to member and a via member, or refers to an unknown way or  *)
(* node, or has a member of an invalid type, or whose members are          *)
(* disjoined, is skipped: add_features does not raise, nodes, edges and    *)
(* the phantom id counter are unchanged by it, and the features after it   *)
(* are ingested: the call leaves the graph that the batch without its      *)
(* invalid relations gives.                                                *)
(***************************************************************************)
C19_InvalidRestrictionSkipped ==
    /\ [][(Fed("relation") /\ InvalidRestriction(G, B, Last(batch'))) =>
              /\ pc' = "building"
              /\ GNext = G
              /\ unused_nodes' = unused_nodes]_vars
    /\ [](Returned => G = add_features_to(NewGraph, WithoutInvalid(batch)).g)

\* the call has returned from a batch with an invalid relation followed by a
\* restriction that was applied
C19_Witness ==
    /\ Returned
    /\ Len(OfKind(batch, "relation")) = 2
    /\ Len(OfKind(WithoutInvalid(batch), "relation")) = 1
    /\ WrongShape(batch[Len(batch) - 1]) \/ BadMember(G, B, batch[Len(batch) - 1])
    /\ Len(applied) = 1
    /\ \E id \in DOMAIN nodes : IsPhantom(id)

(***************************************************************************)
(* C21: taking an OSM node whose id is _MAX_NODE_ID or more raises, and    *)
(* the node is not inserted: nodes, edges, the phantom id counter and      *)
(* unused_nodes stay as they were.  So in every reachable graph a node     *)
(* with such an id is a phantom, the clone of an OSM node with a small id. *)
(***************************************************************************)
C21_BigNodeIdRejected ==
    /\ [][(Fed("node") /\ Last(batch').id >= _MAX_NODE_ID) =>
              /\ pc' = "raised"
              /\ GNext = G
              /\ unused_nodes' = unused_nodes]_vars
    /\ [](\A id \in DOMAIN nodes :
              IsPhantom(id) => /\ nodes[id].external_id < _MAX_NODE_ID
                               /\ nodes[id].external_id # id)

\* a call has raised on a node with a big id, in a graph that holds phantom
\* nodes of an earlier call
C21_Witness ==
    /\ pc = "raised"
    /\ Last(batch).kind = "node"
    /\ Last(batch).id >= _MAX_NODE_ID
    /\ Last(batch).id \notin DOMAIN nodes
    /\ \E id \in DOMAIN nodes : IsPhantom(id)


(***************************************************************************)
(* SpecSame: both searches from a node of the graph to that same node,     *)
(* without a step limit or with a limit of 0..MaxStepLimit                 *)
(***************************************************************************)
StepLimits == {None} \cup {Some(l) : l \in 0..MaxStepLimit}

NextSame ==
    \/ /\ rpc = "idle"
       /\ \E E \in EdgeSets(RouteMaxNode, RouteMaxEdges) :
          \E cost \in [E -> 0..TurnMaxCost] :
          \E position \in Positions(RouteMaxNode, TurnMaxPos) :
          \E start \in 1..RouteMaxNode :
          \E step_limit \in StepLimits :
              CallFindRoute(Call_(GraphOf(RouteMaxNode, E, cost, position,
                                          [i \in 1..RouteMaxNode |-> i]),
                                  start, start, step_limit))
    \/ FindRouteIteration
    \/ /\ rpc = "idle"
       /\ \E E \in EdgeSets(RouteMaxNode, RouteMaxEdges) :
          \E cost \in [E -> 0..TurnMaxCost] :
          \E position \in Positions(RouteMaxNode, TurnMaxPos) :
          \E external_id \in WithPhantom(RouteMaxNode) :
          \E start \in 1..RouteMaxNode :
          \E step_limit \in StepLimits :
              CallFindRouteWithoutTurnAround(
                  Call_(GraphOf(RouteMaxNode, E, cost, position, external_id),
                        start, start, step_limit))
    \/ FindRouteWithoutTurnAroundIteration

SpecSame == Init /\ [][NextSame]_vars

(***************************************************************************)
(* C22: a search from a node of the graph to itself returns [start] at the *)
(* first turn of its loop, whatever the step limit, 0 included: it never   *)
(* raises StepLimitExceeded and counts no step.                            *)
(***************************************************************************)
C22_StartIsEnd ==
    (rpc # "idle" /\ call[1].start = call[1].end) =>
        /\ rpc \in {"loop", "returned"}
        /\ rpc = "loop" => pops = <<>>
        /\ rpc = "returned" => /\ result = <<call[1].start>>
                               /\ steps = 0

\* find_route_without_turn_around has returned from a search with a step
\* limit of 0 that started at a node with outgoing edges
C22_Witness ==
    /\ rpc = "returned"
    /\ func = "find_route_without_turn_around"
    /\ call[1].start = call[1].end
    /\ call[1].step_limit = Some(0)
    /\ call[1].start \in DOMAIN call[1].g.edges
    /\ result = <<call[1].start>>


(***************************************************************************)
(* osm/profile.py: HighwayProfile                                          *)
(*   profile : [penalties, access]; penalties and tags are Mappings,       *)
(*   functions from strings; access is a list of keys                      *)
(***************************************************************************)
EQUIVALENT_TAGS ==
    [motorway_link |-> "motorway", trunk_link |-> "trunk", primary_link |-> "primary",
     secondary_link |-> "secondary", tertiary_link |-> "tertiary",
     minor |-> "unclassified"]

\* Mapping.get(key, default)
GetOr(mapping, key, default) == IF key \in DOMAIN mapping THEN mapping[key] ELSE default
\* Mapping.get(key), an Optional
Get(mapping, key) == IF key \in DOMAIN mapping THEN Some(mapping[key]) ELSE None

get_active_highway_value(tags) ==
    GetOr(EQUIVALENT_TAGS, GetOr(tags, "highway", ""), GetOr(tags, "highway", ""))

\* is_allowed that walks the access list from its first key on
RECURSIVE is_allowed_forwards_from(_, _, _)
is_allowed_forwards_from(access, way_tags, i) ==
    IF i > Len(access) THEN TRUE
    ELSE IF Get(way_tags, access[i]) \in {Some("no"), Some("private")} THEN FALSE
    ELSE IF Get(way_tags, access[i]) # None THEN TRUE
    ELSE is_allowed_forwards_from(access, way_tags, i + 1)

is_allowed_forwards(profile, way_tags) ==
    is_allowed_forwards_from(profile.access, way_tags, 1)

\* the loop of is_allowed over reversed(self.access), from key i down
RECURSIVE is_allowed_from(_, _, _)
is_allowed_from(access, way_tags, i) ==
    IF i < 1 THEN TRUE
    ELSE IF Get(way_tags, access[i]) \in {Some("no"), Some("private")} THEN FALSE
    ELSE IF Get(way_tags, access[i]) # None THEN TRUE
    ELSE is_allowed_from(access, way_tags, i - 1)

is_allowed(profile, way_tags) ==
    is_allowed_from(profile.access, way_tags, Len(profile.access))

\* HighwayProfile.way_penalty, an Optional
way_penalty(profile, way_tags) ==
    IF Get(profile.penalties, get_active_highway_value(way_tags)) = None THEN None
    ELSE IF ~is_allowed(profile, way_tags) THEN None
    ELSE Get(profile.penalties, get_active_highway_value(way_tags))

(***************************************************************************)
(* SpecProfile: way_penalty is called on a profile and the tags of a way   *)
(***************************************************************************)
AccessKeys == {"access", "vehicle", "motorcar"}
AccessValues == {"no", "private", "yes", "destination"}
HighwayValues == {"primary", "primary_link", "minor", "footway", "no"}

\* the access hierarchies: lists of up to ProfMaxAccess access keys
AccessLists == UNION {[1..n -> AccessKeys] : n \in 0..ProfMaxAccess}

\* the tag maps: any access keys with any values, with or without highway
AccessTags == UNION {[K -> AccessValues] : K \in SUBSET AccessKeys}
WithHighway(tags) == {tags} \cup {[k \in DOMAIN tags \cup {"highway"} |->
                                      IF k = "highway" THEN h ELSE tags[k]] :
                                   h \in HighwayValues}

PenaltyMaps == {[primary |-> 1, unclassified |-> 2],
                [x \in {"", "primary"} |-> 3]}

CallWayPenalty(profile, way_tags) ==
    /\ rpc = "idle"
    /\ call' = Some([profile |-> profile, way_tags |-> way_tags])
    /\ func' = "way_penalty"
    /\ rpc' = "returned"
    /\ result' = way_penalty(profile, way_tags)
    /\ UNCHANGED <<queue, came_from, known_costs, steps, pops>>
    /\ UNCHANGED builderVars

NextProfile ==
    /\ rpc = "idle"
    /\ \E penalties \in PenaltyMaps :
       \E access \in AccessLists :
       \E tags \in AccessTags :
       \E way_tags \in WithHighway(tags) :
           CallWayPenalty([penalties |-> penalties, access |-> access], way_tags)

SpecProfile == Init /\ [][NextProfile]_vars

\* the walk of the access list least-specific first: every key present in
\* the tags overrides the verdict of the keys before it
RECURSIVE AllowedAfter(_, _, _, _)
AllowedAfter(access, tags, i, allowed) ==
    IF i > Len(access) THEN allowed
    ELSE AllowedAfter(access, tags, i + 1,
                      IF access[i] \in DOMAIN tags
                      THEN tags[access[i]] \notin {"no", "private"}
                      ELSE allowed)

\* the highway value, normalised
Normalised(tags) ==
    LET h == IF "highway" \in DOMAIN tags THEN tags["highway"] ELSE ""
    IN IF h \in DOMAIN EQUIVALENT_TAGS THEN EQUIVALENT_TAGS[h] ELSE h

(***************************************************************************)
(* C23: way_penalty returns None when the normalised highway value is not  *)
(* in penalties, or when the walk of the access list least-specific first, *)
(* every key present in the tags overriding the earlier ones, ends at no   *)
(* or private; otherwise it returns penalties[h].  The walk of the code,   *)
(* most-specific first with the first key present deciding, gives the      *)
(* same verdict.                                                           *)
(***************************************************************************)
C23_WayPenalty ==
    (rpc = "returned" /\ func = "way_penalty") =>
        LET profile == call[1].profile
            tags == call[1].way_tags
        IN /\ is_allowed(profile, tags) = AllowedAfter(profile.access, tags, 1, TRUE)
           /\ result = IF Normalised(tags) \notin DOMAIN profile.penalties THEN None
                       ELSE IF ~AllowedAfter(profile.access, tags, 1, TRUE) THEN None
                       ELSE Some(profile.penalties[Normalised(tags)])

\* way_penalty has returned a penalty for a way with a link highway value
\* that a less specific key forbids and a more specific key allows
C23_Witness ==
    /\ rpc = "returned"
    /\ func = "way_penalty"
    /\ call[1].profile.access = <<"access", "vehicle", "motorcar">>
    /\ call[1].way_tags = [highway |-> "primary_link", access |-> "no",
                           motorcar |-> "destination"]
    /\ result = Some(1)


(***************************************************************************)
(* kd.py: KDTree                                                           *)
(*   a point is [id, position], a position <<x, y>>; a tree is             *)
(*   [pivot, left, right] with left and right Optional trees               *)
(***************************************************************************)
\* math.dist squared: the searches only compare distances with each other
euclidean_distance(a, b) ==
    (b[1] - a[1]) * (b[1] - a[1]) + (b[2] - a[2]) * (b[2] - a[2])

KDTree(pivot, left, right) == [pivot |-> pivot, left |-> left, right |-> right]

\* position[axis], axis being 0 or 1
Coord(position, axis) == position[axis + 1]

\* pt put into a list sorted by position[axis], after the points with the
\* same key
RECURSIVE InsertSorted(_, _, _)
InsertSorted(sorted, pt, axis) ==
    IF sorted = <<>> THEN <<pt>>
    ELSE IF Coord(pt.position, axis) < Coord(sorted[1].position, axis)
    THEN <<pt>> \o sorted
    ELSE <<sorted[1]>> \o InsertSorted(Tail(sorted), pt, axis)

\* points.sort(key=lambda pt: pt.position[axis]): a stable sort
RECURSIVE SortedByAxis(_, _)
SortedByAxis(points, axis) ==
    IF points = <<>> THEN <<>>
    ELSE InsertSorted(SortedByAxis(SubSeq(points, 1, Len(points) - 1), axis),
                      Last(points), axis)

\* KDTree._build_impl, an Optional tree; median = len(points) // 2 is the
\* 0-based index of the pivot in the sorted list
RECURSIVE _build_impl(_, _)
_build_impl(points, axis) ==
    IF points = <<>> THEN None
    ELSE IF Len(points) = 1 THEN Some(KDTree(points[1], None, None))
    ELSE LET sorted == SortedByAxis(points, axis)
             median == Len(points) \div 2
         IN Some(KDTree(sorted[median + 1],
                        _build_impl(SubSeq(sorted, 1, median), 1 - axis),
                        _build_impl(SubSeq(sorted, median + 2, Len(sorted)), 1 - axis)))

build(points) == _build_impl(points, 0)

\* the closer of the best so far and the alternative, both <<point, distance>>
Closer(best, alt) == IF alt[2] < best[2] THEN alt ELSE best

\* _find_nearest_neighbor_impl that never looks into the second branch
RECURSIVE _find_nearest_neighbor_first_only(_, _, _)
_find_nearest_neighbor_first_only(tree, root, axis) ==
    LET first == IF Coord(root, axis) < Coord(tree.pivot.position, axis)
                 THEN tree.left ELSE tree.right
        best == <<tree.pivot, euclidean_distance(root, tree.pivot.position)>>
    IN IF first # None
       THEN Closer(best, _find_nearest_neighbor_first_only(first[1], root, 1 - axis))
       ELSE best

\* KDTree._find_nearest_neighbor_impl: <<best, best_distance>>
RECURSIVE _find_nearest_neighbor_impl(_, _, _)
_find_nearest_neighbor_impl(tree, root, axis) ==
    LET first_left == Coord(root, axis) < Coord(tree.pivot.position, axis)
        first == IF first_left THEN tree.left ELSE tree.right
        second == IF first_left THEN tree.right ELSE tree.left
        pivot_best == <<tree.pivot, euclidean_distance(root, tree.pivot.position)>>
        best == IF first # None
                THEN Closer(pivot_best,
                            _find_nearest_neighbor_impl(first[1], root, 1 - axis))
                ELSE pivot_best
        pt_on_axis == IF axis = 0 THEN <<tree.pivot.position[1], root[2]>>
                      ELSE <<root[1], tree.pivot.position[2]>>
    IN IF second # None /\ euclidean_distance(root, pt_on_axis) < best[2]
       THEN Closer(best, _find_nearest_neighbor_impl(second[1], root, 1 - axis))
       ELSE best

find_nearest_neighbor(tree, root) == _find_nearest_neighbor_impl(tree, root, 0)[1]

(***************************************************************************)
(* SpecKD: a tree is built of 1..KdMaxPoints points, listed in any order   *)
(* and at any positions of the grid, two points at one position included,  *)
(* and is then asked for the nearest neighbour of a position of the grid.  *)
(***************************************************************************)
Grid == (0..KdMaxCoord) \X (0..KdMaxCoord)

\* the list of points 1, 2, ... at the positions
PointsAt(positions) == [i \in DOMAIN positions |-> [id |-> i, position |-> positions[i]]]

CallBuild(points) ==
    /\ rpc = "idle"
    /\ call' = Some([points |-> points, tree |-> build(points)])
    /\ func' = "build"
    /\ rpc' = "returned"
    /\ result' = <<>>
    /\ UNCHANGED <<queue, came_from, known_costs, steps, pops>>
    /\ UNCHANGED builderVars

CallFindNearestNeighbor(root) ==
    /\ rpc = "returned"
    /\ func = "build"
    /\ call' = Some([points |-> call[1].points, tree |-> call[1].tree, root |-> root])
    /\ func' = "find_nearest_neighbor"
    /\ result' = Some(find_nearest_neighbor(call[1].tree[1], root))
    /\ UNCHANGED <<rpc, queue, came_from, known_costs, steps, pops>>
    /\ UNCHANGED builderVars

NextKD ==
    \/ /\ rpc = "idle"
       /\ \E n \in 1..KdMaxPoints :
          \E positions \in [1..n -> Grid] : CallBuild(PointsAt(positions))
    \/ /\ func = "build"
       /\ \E root \in Grid : CallFindNearestNeighbor(root)

SpecKD == Init /\ [][NextKD]_vars

\* the points of a tree
RECURSIVE TreePoints(_)
TreePoints(tree) ==
    IF tree = None THEN {}
    ELSE {tree[1].pivot} \cup TreePoints(tree[1].left) \cup TreePoints(tree[1].right)

(***************************************************************************)
(* C24: find_nearest_neighbor on the tree built of a non-empty list of     *)
(* points returns one of the points, and its euclidean distance to the     *)
(* query is the least distance of any of the points, also when points      *)
(* share a coordinate on a splitting axis.  The tree holds every point.    *)
(***************************************************************************)
C24_NearestNeighbor ==
    /\ func = "build" => TreePoints(call[1].tree) = SeqSet(call[1].points)
    /\ func = "find_nearest_neighbor" =>
          /\ result[1] \in SeqSet(call[1].points)
          /\ \A pt \in SeqSet(call[1].points) :
                 euclidean_distance(call[1].root, result[1].position)
                     <= euclidean_distance(call[1].root, pt.position)

\* the nearest neighbour was found in the second branch of the root of a
\* tree of four points, a branch that holds a point with the x of the pivot
C24_Witness ==
    /\ func = "find_nearest_neighbor"
    /\ Len(call[1].points) = KdMaxPoints
    /\ call[1].root[1] >= call[1].tree[1].pivot.position[1]
    /\ result[1] \in TreePoints(call[1].tree[1].left)
    /\ \E pt \in TreePoints(call[1].tree[1].left) :
           pt.position[1] = call[1].tree[1].pivot.position[1]
    /\ \A pt \in SeqSet(call[1].points) \ {result[1]} :
           euclidean_distance(call[1].root, result[1].position)
               < euclidean_distance(call[1].root, pt.position)


\* the outgoing edges of a node, as a set of <<neighbour, cost>>
OutEdges(g, id) == SeqSet(get_edges(g.edges, id))

\* the outgoing edges of n0 are as before, or its edge to n1 has become an
\* edge of the same cost to a clone of n1
EntryRewritten(route) ==
    \/ OutEdges(GNext, route[1]) = OutEdges(G, route[1])
    \/ \E old \in OutEdges(G, route[1]) :
       \E new \in OutEdges(GNext, route[1]) :
           /\ old[1] = route[2]
           /\ IsPhantom(new[1])
           /\ ExternalId(GNext, new[1]) = route[2]
           /\ new[2] = old[2]
           /\ OutEdges(GNext, route[1]) = (OutEdges(G, route[1]) \ {old}) \cup {new}

(***************************************************************************)
(* C25: applying a restriction with the route n0, ..., n(k-1) changes only *)
(* the outgoing edges of n0, whose edge to n1 is replaced by an edge to    *)
(* the clone, and of phantom nodes: the outgoing edges and costs of the    *)
(* regular via nodes and of every other regular node stay as they were.    *)
(***************************************************************************)
C25_OnlyEntryEdgeRewritten ==
    [][Applies =>
           /\ EntryRewritten(FedRoute[1])
           /\ \A id \in DOMAIN nodes :
                  (~IsPhantom(id) /\ id # FedRoute[1][1]) =>
                      OutEdges(GNext, id) = OutEdges(G, id)]_vars


\* the walk of the step: [cloned_nodes, ch] as restriction_as_cloned_nodes
\* leaves them, before the edges of the restriction itself are staged
FedWalk == restriction_as_cloned_nodes(G, NewChange(G), FedRoute[1])[1]

\* the phantom nodes with the external id that the node prev of the walk
\* has an edge to when the walk starts (a clone minted by the walk has the
\* edges of its original)
PhantomsAhead(w, prev, external_id) ==
    {y \in OutNeighbours(G, OriginalOf(w.ch, prev)) :
        IsPhantom(y) /\ ExternalId(G, y) = external_id}

\* step i of the walk reuses a phantom node: nothing is minted and no edge
\* change is staged for the step
Reuses(w, i) ==
    /\ w.cloned_nodes[i] \in DOMAIN nodes
    /\ ~DictHas(w.ch.new_nodes, w.cloned_nodes[i])
    /\ <<w.cloned_nodes[i - 1], w.cloned_nodes[i]>> \notin w.ch.edges_to_remove
    /\ \/ ~DictHas(w.ch.edges_to_add, w.cloned_nodes[i - 1])
       \/ ~DictHas(DictGet(w.ch.edges_to_add, w.cloned_nodes[i - 1]), w.cloned_nodes[i])

\* the step applies a prohibitory restriction with the entry of restriction j
\* of the prohibitory restrictions applied so far
SharesEntryWith(j) ==
    /\ Applies
    /\ Last(batch').restriction = "PROHIBITORY"
    /\ ~applied[j].mandatory
    /\ applied[j].route[1] = FedRoute[1][1]
    /\ applied[j].route[2] = FedRoute[1][2]

(***************************************************************************)
(* C26: when the walk of a restriction route reaches a step where the      *)
(* current node has an edge to a phantom node with the required external   *)
(* id, that phantom is reused: no node is minted and no edge change is     *)
(* staged for the step, and the phantom id counter advances by the number  *)
(* of the other steps' clones only.  In particular prohibitory             *)
(* restrictions with the same entry n0 -> n1 share one clone of n1, and    *)
(* each removes its own terminal edge from it.                             *)
(***************************************************************************)
C26_PhantomReused ==
    [][Applies =>
           /\ \A i \in 2..Len(FedRoute[1]) :
                  PhantomsAhead(FedWalk, FedWalk.cloned_nodes[i - 1], FedRoute[1][i]) # {} =>
                      /\ FedWalk.cloned_nodes[i]
                             \in PhantomsAhead(FedWalk, FedWalk.cloned_nodes[i - 1],
                                               FedRoute[1][i])
                      /\ Reuses(FedWalk, i)
           /\ _phantom_node_id_counter' - _phantom_node_id_counter
                  = Cardinality({i \in 2..Len(FedRoute[1]) : ~Reuses(FedWalk, i)
                                     /\ FedWalk.cloned_nodes[i] \notin DOMAIN nodes})
           /\ \A j \in 1..Len(applied) :
                  SharesEntryWith(j) =>
                      /\ EntryClones(GNext, FedRoute[1]) = EntryClones(G, FedRoute[1])
                      /\ Cardinality(EntryClones(GNext, FedRoute[1])) = 1
                      /\ \A p \in EntryClones(GNext, FedRoute[1]) :
                             \A y \in OutNeighbours(GNext, p) :
                                 /\ Len(FedRoute[1]) = 3 =>
                                        ExternalId(GNext, y) # FedRoute[1][3]
                                 /\ Len(applied[j].route) = 3 =>
                                        ExternalId(GNext, y) # applied[j].route[3]]_vars


(***************************************************************************)
(* SpecChain: _get_restriction_nodes is called by a builder that holds     *)
(* ChainMaxWays ways, on a restriction from way 1 through one or more via  *)
(* members (nodes or ways) to any of the ways.  A way lists 2..ChainMaxLen *)
(* known nodes, no node twice in a row.                                    *)
(***************************************************************************)
ChainLists ==
    {l \in UNION {[1..n -> 1..ChainMaxNode] : n \in 2..ChainMaxLen} :
        \A i \in 1..(Len(l) - 1) : l[i] # l[i + 1]}

ChainVias ==
    {Member("node", n, "via") : n \in 1..ChainMaxNode}
    \cup {Member("way", w, "via") : w \in 1..ChainMaxWays}

\* a graph that holds the nodes, and a builder that holds the ways
ChainGraph == [NewGraph EXCEPT !.nodes = [n \in 1..ChainMaxNode |-> GraphNode(n, n, n)]]
ChainBuilder(wn) == [unused_nodes |-> {}, way_nodes |-> wn]

CallGetRestrictionNodes(wn, r) ==
    /\ rpc = "idle"
    /\ call' = Some([way_nodes |-> wn, r |-> r])
    /\ func' = "_get_restriction_nodes"
    /\ rpc' = "returned"
    /\ result' = RestrictionRoute(ChainGraph, ChainBuilder(wn), r)
    /\ UNCHANGED <<queue, came_from, known_costs, steps, pops>>
    /\ UNCHANGED builderVars

NextChain ==
    /\ rpc = "idle"
    /\ \E wn \in [1..ChainMaxWays -> ChainLists] :
       \E k \in 1..ChainMaxVias :
       \E vias \in [1..k -> ChainVias] :
       \E to \in 1..ChainMaxWays :
           CallGetRestrictionNodes(
               wn, [kind |-> "relation", id |-> 1, restriction |-> "PROHIBITORY",
                    members |-> <<Member("way", 1, "from")>> \o vias
                                    \o <<Member("way", to, "to")>>])

SpecChain == Init /\ [][NextChain]_vars

\* a member's list in its direction of travel
Oriented(wn, member, reversed) ==
    IF reversed THEN Reverse(MemberNodes(wn, member)) ELSE MemberNodes(wn, member)

\* the members chain end to end in the orientation o
Chains(wn, members, o) ==
    \A i \in 1..(Len(members) - 1) :
        Last(Oriented(wn, members[i], o[i])) = Oriented(wn, members[i + 1], o[i + 1])[1]

\* the nodes of the via members i.., each without its first node
RECURSIVE ViaNodes(_, _, _, _)
ViaNodes(wn, members, o, i) ==
    IF i >= Len(members) THEN <<>>
    ELSE Tail(Oriented(wn, members[i], o[i])) \o ViaNodes(wn, members, o, i + 1)

\* the node of the from member next to the junction, the junction, the
\* nodes of the via members and the second node of the to member
ChainRoute(wn, members, o) ==
    LET from == Oriented(wn, members[1], o[1])
        to == Oriented(wn, members[Len(members)], o[Len(members)])
    IN <<from[Len(from) - 1], from[Len(from)]>> \o ViaNodes(wn, members, o, 2) \o <<to[2]>>

ChainRoutes(wn, members) ==
    {ChainRoute(wn, members, o) : o \in {x \in [1..Len(members) -> BOOLEAN] :
                                           Chains(wn, members, x)}}

\* the ways listed the other way round where flip says so
Flipped(wn, flip) == [w \in DOMAIN wn |-> IF flip[w] THEN Reverse(wn[w]) ELSE wn[w]]

(***************************************************************************)
(* C27: for members from, via..., to whose node lists chain end to end in  *)
(* some orientation of each member, the route computed is the node of the  *)
(* from member next to the junction, the junction, the nodes of the via    *)
(* members in travel order and the second node of the to member; it does   *)
(* not depend on the direction in which each way lists its nodes, and it   *)
(* has at least 3 elements.                                                *)
(***************************************************************************)
C27_RouteOfChainedMembers ==
    (func = "_get_restriction_nodes" /\ ChainRoutes(call[1].way_nodes, call[1].r.members) # {}) =>
        /\ result # None
        /\ result[1] \in ChainRoutes(call[1].way_nodes, call[1].r.members)
        /\ Len(result[1]) >= 3
        /\ \A flip \in [DOMAIN call[1].way_nodes -> BOOLEAN] :
               RestrictionRoute(ChainGraph,
                                ChainBuilder(Flipped(call[1].way_nodes, flip)),
                                call[1].r) = result


(***************************************************************************)
(* C28: in every graph reached by taking features, ways and restrictions   *)
(* in any order and over one or several add_features calls, a node has for *)
(* each external id at most one outgoing edge to a node with that external *)
(* id; so the walk of a route finds one next node, and an edge replaced by *)
(* an edge to a clone does not stand beside it.                            *)
(***************************************************************************)
C28_OneEdgePerExternalId ==
    \A u \in DOMAIN edges :
        \A y, z \in OutNeighbours(G, u) :
            ExternalId(G, y) = ExternalId(G, z) => y = z


(***************************************************************************)
(* C29: taking a relation leaves way_nodes as it was; way_nodes holds for  *)
(* every accepted way of the batch the known nodes of the way in the order *)
(* in which the way lists them; and the route of a restriction is the one  *)
(* computed from the ways as listed, whichever restrictions came before.   *)
(***************************************************************************)
ListedNodes(way_id) ==
    _get_way_nodes(G, Last(SelectSeq(batch, LAMBDA f : f.kind = "way" /\ f.id = way_id)))

ListedWayNodes == [way_id \in DOMAIN way_nodes |-> ListedNodes(way_id)]

C29_WayNodesKept ==
    /\ [][Fed("relation") =>
              /\ way_nodes' = way_nodes
              /\ FedRoute = RestrictionRoute(G, [B EXCEPT !.way_nodes = ListedWayNodes],
                                             Last(batch'))]_vars
    /\ [](pc = "building" => way_nodes = ListedWayNodes)


(***************************************************************************)
(* SpecAbort: a sequence of add_features calls, each with a stream of its  *)
(* own; a call may raise on a node with a big id, or on a way to which the *)
(* profile gives a penalty below 1.                                        *)
(***************************************************************************)
InvalidPenaltyWayInputs(maxNode, maxWays) ==
    {[way EXCEPT !.penalty = Some(0)] : way \in WayInputs(maxNode, maxWays)}

NextAbort ==
    \/ Call
    \/ \E node \in NodeInputs(CallsMaxNode) \cup BigNodeInputs : AddNode(node)
    \/ \E way \in WayInputs(CallsMaxNode, CallsMaxWays)
                  \cup InvalidPenaltyWayInputs(CallsMaxNode, CallsMaxWays) : AddWay(way)
    \/ \E relation \in RelationInputs(CallsMaxNode, CallsMaxRels) : AddRelation(relation)
    \/ Return

SpecAbort == Init /\ [][NextAbort]_vars

(***************************************************************************)
(* C30: when add_features has raised (on a node with a big id or on an     *)
(* invalid penalty), the nodes that the aborted batch added and that no    *)
(* way of it uses are not in the graph, as after a batch that returned.    *)
(***************************************************************************)
C30_NoUnusedNodeAfterAbort ==
    pc = "raised" => unused_nodes \cap DOMAIN nodes = {}

====
